---- MODULE Spec2Model ----
(***************************************************************************)
(* The desktop state store of portfolio-lit (AppState, app-state context)  *)
(* as a state machine.  `state` is the store's this.state object; every    *)
(* store command is one action that replaces it, as updateState does.      *)
(***************************************************************************)
EXTENDS Integers, Sequences, FiniteSets, TLC

VARIABLES state, last, storage, saveTimeout, osWindow, desktopIcons

vars == <<state, last, storage, saveTimeout, osWindow, desktopIcons>>

\* ------------------------------------------------------------------ bounds

\* At most this many windows are open at once (guard of the open command)
\* where the focus and z-order commands are explored.
MaxWindows == 3

\* At most this many windows are open at once where all nine window commands,
\* the geometry commands included, are explored.
MaxStoreWindows == 2

\* The z-order counter is followed for this many allocations above its base.
MaxZ == 4

\* The 1000 ms of the save timer, counted in ticks of the clock.
TimerTicks == 2

\* At most this many drag and resize gestures begin on a page.
MaxGestures == 2

\* The largest number of open windows getCascadePosition is called with.
MaxCascade == 8

\* The desktop icons followed are those of the first MaxApps applications of
\* the registry.
MaxApps == 2

\* ------------------------------------------------------- program constants

WINDOW_BASE == 100
WINDOW_INITIAL_WIDTH == 600
WINDOW_INITIAL_HEIGHT == 400
WINDOW_CASCADE_OFFSET == 30
WINDOW_CASCADE_MAX == 200
WINDOW_MIN_WIDTH == 300
WINDOW_MIN_HEIGHT == 200

THEMES == {"dark", "light", "macos", "glass", "custom"}

WINDOW_SNAP_THRESHOLD == 20

Z_INDEX_DESKTOP == 0

Z_INDEX_APPBAR == 900

Z_INDEX_TOPBAR == 1000

\* ------------------------------------------------------------------ inputs

\* focusedWindowId = null
Null == "<null>"

\* Ids a caller passes in config.id.  "" is falsy in `config.id || ...`.
ConfigIds == {"", "app"}

GenIdNames == <<"win-1", "win-2", "win-3", "win-4", "win-5", "win-6">>

\* Ids a command can be called with where at most `limit` windows are open:
\* the caller's own ids and the generated ones.  Each is live in some
\* states and matches no window in the others.
Ids(limit) == (ConfigIds \ {""}) \cup {GenIdNames[i] : i \in 1..limit}

PosInputs == {[x |-> 40, y |-> 60]}

SizeInputs == {[width |-> 300, height |-> 200]}

\* window.innerWidth x window.innerHeight when the store is constructed
DesktopSizes == {[width |-> 1024, height |-> 768]}

\* The sizes the browser window is resized to.
ViewportSizes == DesktopSizes \cup {[width |-> 800, height |-> 600]}

\* The themes setTheme is called with: one of THEMES and one that is not.
ThemeInputs == {"light", "neon"}

\* The single icon updateIconPosition is called for.
IconEntries == {[appId |-> "about", position |-> [x |-> 120, y |-> 20]]}

\* The maps the icon grid passes to setIconPositions.
IconMaps ==
  { <<[appId |-> "about", position |-> [x |-> 20, y |-> 20]],
      [appId |-> "terminal", position |-> [x |-> 120, y |-> 20]]>>,
    <<[appId |-> "terminal", position |-> [x |-> 120, y |-> 20]],
      [appId |-> "about", position |-> [x |-> 20, y |-> 20]]>> }

\* An optional config field is <<>> (absent) or <<v>>.
Opt(S) == {<<>>} \cup {<<v>> : v \in S}

Configs == [id : Opt(ConfigIds), position : Opt(PosInputs), size : Opt(SizeInputs)]

\* The configs that leave the geometry to the defaults.
IdConfigs == {c \in Configs : c.position = <<>> /\ c.size = <<>>}

\* No optional argument given.
NoArgs == [id |-> <<>>, position |-> <<>>, size |-> <<>>]

\* What a call that ends in an uncaught exception returns.
Throws == "<throws>"

\* ----------------------------------------------------------------- helpers

\* ws.reduce((max, w) => w.zIndex > max.zIndex ? w : max, ws[0]): the index of
\* the first window with the highest zIndex.
RECURSIVE ReduceMaxZ(_, _, _)
ReduceMaxZ(ws, i, max) ==
  IF i > Len(ws) THEN max
  ELSE ReduceMaxZ(ws, i + 1, IF ws[i].zIndex > ws[max].zIndex THEN i ELSE max)

HighestZ(ws) == ReduceMaxZ(ws, 1, 1)

Max(a, b) == IF a >= b THEN a ELSE b

Min(a, b) == IF a <= b THEN a ELSE b

\* --------------------------------------------------------- geometry engine

\* The values the geometry functions are called with.
EnginePositions == {[x |-> px, y |-> py] : px \in {-30, 0, 10, 500, 1000}, py \in {-5, 40, 700}}

EngineSizes ==
  { [width |-> 200, height |-> 100], [width |-> 300, height |-> 200],
    [width |-> 600, height |-> 400], [width |-> 1200, height |-> 400],
    [width |-> 1200, height |-> 900] }

\* Available desktop sizes, one of them smaller than the smallest window.
EngineBounds ==
  { [width |-> 1024, height |-> 688], [width |-> 800, height |-> 520],
    [width |-> 250, height |-> 150] }

\* constrainPosition without the lower clamp.
constrainPositionNoFloor(position, size, bounds) ==
  LET maxX == Max(bounds.width - size.width, 0)
      maxY == Max(bounds.height - size.height, 0)
  IN  [x |-> Min(position.x, maxX), y |-> Min(position.y, maxY)]

\* constrainPosition that takes the window's right and bottom edges for its
\* position.
constrainPositionFarEdge(position, size, bounds) ==
  [ x |-> Max(0, Min(position.x, bounds.width) - size.width),
    y |-> Max(0, Min(position.y, bounds.height) - size.height) ]

constrainPosition(position, size, bounds) ==
  LET minX == 0
      minY == 0
      maxX == Max(bounds.width - size.width, 0)
      maxY == Max(bounds.height - size.height, 0)
  IN  [ x |-> Max(minX, Min(position.x, maxX)),
        y |-> Max(minY, Min(position.y, maxY)) ]

\* A resize handle is the list of its letters; handle.includes(c).
Handles == {<<"n">>, <<"s">>, <<"e">>, <<"w">>, <<"n", "e">>, <<"n", "w">>, <<"s", "e">>, <<"s", "w">>}

includes(handle, c) == \E i \in 1..Len(handle) : handle[i] = c

\* Where the pointer went down, and how far it has moved since.
EngineStarts == {[x |-> 400, y |-> 300]}

EngineDeltas == {[x |-> dx, y |-> dy] : dx \in {-400, -30, 0, 30, 400}, dy \in {-250, 0, 30, 250}}

\* The window captured at the start of a resize; the first is smaller than
\* the default minimum size.
EngineWindows ==
  { [position |-> [x |-> 50, y |-> 50], size |-> [width |-> 200, height |-> 100]],
    [position |-> [x |-> 100, y |-> 100], size |-> [width |-> 600, height |-> 400]] }

\* The minSize argument: the default and one a caller passes.
EngineMinSizes ==
  { [width |-> WINDOW_MIN_WIDTH, height |-> WINDOW_MIN_HEIGHT],
    [width |-> 100, height |-> 50] }

\* calculateResize that moves the west and north edges with the pointer,
\* whatever the minimum size allows.
calculateResizeFollowPointer(handle, startPos, currentPos, originalWindowData, minSize) ==
  LET deltaX == currentPos.x - startPos.x
      deltaY == currentPos.y - startPos.y
      opos   == originalWindowData.position
      osize  == originalWindowData.size
      e == includes(handle, "e")
      w == ~e /\ includes(handle, "w")
      s == includes(handle, "s")
      n == ~s /\ includes(handle, "n")
  IN  [ position |-> [ x |-> IF w THEN opos.x + deltaX ELSE opos.x,
                       y |-> IF n THEN opos.y + deltaY ELSE opos.y ],
        size     |-> [ width  |-> IF e THEN Max(minSize.width, osize.width + deltaX)
                                  ELSE IF w THEN Max(minSize.width, osize.width - deltaX)
                                  ELSE osize.width,
                       height |-> IF s THEN Max(minSize.height, osize.height + deltaY)
                                  ELSE IF n THEN Max(minSize.height, osize.height - deltaY)
                                  ELSE osize.height ] ]

\* calculateResize without the minimum size.
calculateResizeNoMinimum(handle, startPos, currentPos, originalWindowData, minSize) ==
  LET deltaX == currentPos.x - startPos.x
      deltaY == currentPos.y - startPos.y
      opos   == originalWindowData.position
      osize  == originalWindowData.size
      e == includes(handle, "e")
      w == ~e /\ includes(handle, "w")
      s == includes(handle, "s")
      n == ~s /\ includes(handle, "n")
  IN  [ position |-> [ x |-> IF w THEN opos.x + deltaX ELSE opos.x,
                       y |-> IF n THEN opos.y + deltaY ELSE opos.y ],
        size     |-> [ width  |-> IF e THEN osize.width + deltaX
                                  ELSE IF w THEN osize.width - deltaX
                                  ELSE osize.width,
                       height |-> IF s THEN osize.height + deltaY
                                  ELSE IF n THEN osize.height - deltaY
                                  ELSE osize.height ] ]

calculateResize(handle, startPos, currentPos, originalWindowData, minSize) ==
  LET deltaX == currentPos.x - startPos.x
      deltaY == currentPos.y - startPos.y
      opos   == originalWindowData.position
      osize  == originalWindowData.size
      e == includes(handle, "e")
      w == ~e /\ includes(handle, "w")
      s == includes(handle, "s")
      n == ~s /\ includes(handle, "n")
      newWidth  == Max(minSize.width, osize.width - deltaX)
      newHeight == Max(minSize.height, osize.height - deltaY)
  IN  [ position |-> [ x |-> IF w THEN opos.x + (osize.width - newWidth) ELSE opos.x,
                       y |-> IF n THEN opos.y + (osize.height - newHeight) ELSE opos.y ],
        size     |-> [ width  |-> IF e THEN Max(minSize.width, osize.width + deltaX)
                                  ELSE IF w THEN newWidth
                                  ELSE osize.width,
                       height |-> IF s THEN Max(minSize.height, osize.height + deltaY)
                                  ELSE IF n THEN newHeight
                                  ELSE osize.height ] ]

\* The threshold argument of snapToEdge: left out, or passed.
SnapThresholds == Opt({10})

\* Coordinates below, at and beyond both edges' snap ranges, for a size that
\* leaves room (600 x 400), sizes that leave less than one or two thresholds
\* (1010 x 680, 1000 x 660), and a size larger than the bounds.
SnapPositions ==
  {[x |-> px, y |-> py] : px \in {-5, 0, 5, 14, 19, 20, 404, 405, 424, 425},
                          py \in {-5, 5, 100, 280, 288, 289}}

SnapSizes ==
  { [width |-> 600, height |-> 400], [width |-> 1010, height |-> 680],
    [width |-> 1000, height |-> 660], [width |-> 1200, height |-> 900] }

SnapBounds == {[width |-> 1024, height |-> 688]}

\* snapToEdge(position, size, bounds, threshold = WINDOW_SNAP_THRESHOLD): four
\* tests in sequence, the far-edge tests reading the coordinate the near-edge
\* tests may have set.
snapToEdge(position, size, bounds, threshold) ==
  LET t  == IF threshold = <<>> THEN WINDOW_SNAP_THRESHOLD ELSE threshold[1]
      x1 == IF position.x < t /\ position.x >= 0 THEN 0 ELSE position.x
      x2 == IF x1 > bounds.width - size.width - t /\ x1 <= bounds.width - size.width
            THEN bounds.width - size.width ELSE x1
      y1 == IF position.y < t /\ position.y >= 0 THEN 0 ELSE position.y
      y2 == IF y1 > bounds.height - size.height - t /\ y1 <= bounds.height - size.height
            THEN bounds.height - size.height ELSE y1
  IN  [x |-> x2, y |-> y2]

\* The windows isOverlapping is called with: 100 x 100 squares apart from,
\* touching and crossing one another on each axis.
OverlapWindows ==
  { [position |-> [x |-> px, y |-> py], size |-> [width |-> 100, height |-> 100]] :
      px \in {0, 50, 100, 101}, py \in {0, 100, 101} }

\* The rectangle of a window: left, right, top, bottom.
rect(windowData) ==
  [ left   |-> windowData.position.x,
    right  |-> windowData.position.x + windowData.size.width,
    top    |-> windowData.position.y,
    bottom |-> windowData.position.y + windowData.size.height ]

\* isOverlapping that takes touching rectangles for separate.
isOverlappingStrict(windowData1, windowData2) ==
  LET r1 == rect(windowData1)
      r2 == rect(windowData2)
  IN  ~(r1.right <= r2.left \/ r1.left >= r2.right \/ r1.bottom <= r2.top \/ r1.top >= r2.bottom)

isOverlapping(windowData1, windowData2) ==
  LET r1 == rect(windowData1)
      r2 == rect(windowData2)
  IN  ~(r1.right < r2.left \/ r1.left > r2.right \/ r1.bottom < r2.top \/ r1.top > r2.bottom)

\* getCascadePosition without the wraparound.
getCascadePositionNoWrap(windows) ==
  LET count == Len(windows)
      step  == count * WINDOW_CASCADE_OFFSET
  IN  [x |-> 100 + step, y |-> 100 + step]

getCascadePosition(windows) ==
  LET count == Len(windows)
      step  == (count * WINDOW_CASCADE_OFFSET) % WINDOW_CASCADE_MAX
  IN  [x |-> 100 + step, y |-> 100 + step]

\* ------------------------------------------------------------------- store

\* initialState with the counter on the desktop layer.
initialStateDesktopLayer(desktop) ==
  [ theme           |-> "dark",
    windows         |-> <<>>,
    nextZIndex      |-> Z_INDEX_DESKTOP,
    desktopSize     |-> desktop,
    focusedWindowId |-> Null,
    iconPositions   |-> <<>>,
    selectedIcons   |-> {} ]

initialState(desktop) ==
  [ theme           |-> "dark",
    windows         |-> <<>>,
    nextZIndex      |-> WINDOW_BASE,
    desktopSize     |-> desktop,
    focusedWindowId |-> Null,
    iconPositions   |-> <<>>,
    selectedIcons   |-> {} ]

\* this.state = { ...this.state, ...updates }
updateState(s, updates) ==
  [k \in DOMAIN s |-> IF k \in DOMAIN updates THEN updates[k] ELSE s[k]]

\* windows.map(w => w.id === id ? { ...w, ...updates } : w)
updateWindow(ws, id, updates) ==
  [i \in 1..Len(ws) |->
     IF ws[i].id = id
     THEN [k \in DOMAIN ws[i] |-> IF k \in DOMAIN updates THEN updates[k] ELSE ws[i][k]]
     ELSE ws[i]]

getDefaultPosition(s) ==
  LET offset == (Len(s.windows) * WINDOW_CASCADE_OFFSET) % WINDOW_CASCADE_MAX
  IN  [x |-> 100 + offset, y |-> 100 + offset]

\* openWindow without the pass that unfocuses the windows already open.
openWindowKeepFocus(s, config, gen) ==
  LET id == IF config.id # <<>> /\ config.id[1] # "" THEN config.id[1] ELSE gen
      defaultWindow ==
        [ id          |-> id,
          position    |-> IF config.position # <<>> THEN config.position[1]
                          ELSE getDefaultPosition(s),
          size        |-> IF config.size # <<>> THEN config.size[1]
                          ELSE [width |-> WINDOW_INITIAL_WIDTH, height |-> WINDOW_INITIAL_HEIGHT],
          zIndex      |-> s.nextZIndex,
          isMinimized |-> FALSE,
          isFocused   |-> TRUE,
          component   |-> IF "component" \in DOMAIN config THEN config.component
                          ELSE "div" ]
  IN  [ state |-> updateState(s, [ windows         |-> Append(s.windows, defaultWindow),
                                   nextZIndex      |-> s.nextZIndex + 1,
                                   focusedWindowId |-> id ]),
        ret   |-> id ]

\* openWindow(config), with `gen` the id generateWindowId returns when asked.
\* The result is the new state and the returned id.  A config names its
\* component or leaves it out (`config.component || 'div'`).  A window record
\* also carries title, data and _isNewlyOpened, which openWindow copies from
\* the config and no window command reads or writes.
openWindow(s, config, gen) ==
  LET id == IF config.id # <<>> /\ config.id[1] # "" THEN config.id[1] ELSE gen
      defaultWindow ==
        [ id          |-> id,
          position    |-> IF config.position # <<>> THEN config.position[1]
                          ELSE getDefaultPosition(s),
          size        |-> IF config.size # <<>> THEN config.size[1]
                          ELSE [width |-> WINDOW_INITIAL_WIDTH, height |-> WINDOW_INITIAL_HEIGHT],
          zIndex      |-> s.nextZIndex,
          isMinimized |-> FALSE,
          isFocused   |-> TRUE,
          component   |-> IF "component" \in DOMAIN config THEN config.component
                          ELSE "div" ]
      unfocused == [i \in 1..Len(s.windows) |-> [s.windows[i] EXCEPT !.isFocused = FALSE]]
  IN  [ state |-> updateState(s, [ windows         |-> Append(unfocused, defaultWindow),
                                   nextZIndex      |-> s.nextZIndex + 1,
                                   focusedWindowId |-> id ]),
        ret   |-> id ]

closeWindow(s, id) ==
  LET NotId(w) == w.id # id
      windows  == SelectSeq(s.windows, NotId)
      handoff  == s.focusedWindowId = id /\ Len(windows) > 0
      next     == HighestZ(windows)
  IN  updateState(s,
        [ windows         |-> IF handoff THEN [windows EXCEPT ![next].isFocused = TRUE]
                              ELSE windows,
          focusedWindowId |-> IF handoff THEN windows[next].id
                              ELSE IF Len(windows) = 0 THEN Null
                              ELSE s.focusedWindowId ])

\* focusWindow that raises the target without advancing the counter.
focusWindowNoBump(s, id) ==
  updateState(s,
    [ windows         |-> [i \in 1..Len(s.windows) |->
                             IF s.windows[i].id = id
                             THEN [s.windows[i] EXCEPT !.isFocused = TRUE,
                                                       !.zIndex = s.nextZIndex,
                                                       !.isMinimized = FALSE]
                             ELSE [s.windows[i] EXCEPT !.isFocused = FALSE]],
      focusedWindowId |-> id ])

focusWindow(s, id) ==
  updateState(s,
    [ windows         |-> [i \in 1..Len(s.windows) |->
                             IF s.windows[i].id = id
                             THEN [s.windows[i] EXCEPT !.isFocused = TRUE,
                                                       !.zIndex = s.nextZIndex,
                                                       !.isMinimized = FALSE]
                             ELSE [s.windows[i] EXCEPT !.isFocused = FALSE]],
      nextZIndex      |-> s.nextZIndex + 1,
      focusedWindowId |-> id ])

\* The indices of the windows minimizeWindow's filter keeps, in list order.
VisibleIdx(ws) == {i \in 1..Len(ws) : ~ws[i].isMinimized}

\* The successor taken as the first visible window, whatever its zIndex.
FirstVisible(ws) ==
  CHOOSE i \in VisibleIdx(ws) : \A j \in VisibleIdx(ws) : i <= j

\* The first visible index with the highest zIndex among the visible ones
\* (reduce over the filtered list, strict >).
NextVisible(ws) ==
  CHOOSE i \in VisibleIdx(ws) :
    /\ \A j \in VisibleIdx(ws) : ws[j].zIndex <= ws[i].zIndex
    /\ \A j \in VisibleIdx(ws) : j < i => ws[j].zIndex < ws[i].zIndex

\* minimizeWindow that also collapses the window's box.
minimizeWindowCollapse(s, id) ==
  LET windows == updateWindow(s.windows, id,
                   [ isMinimized |-> TRUE, isFocused |-> FALSE,
                     size |-> [width |-> 0, height |-> 0] ])
      some    == VisibleIdx(windows) # {}
      next    == NextVisible(windows)
  IN  updateState(s,
        [ windows         |-> IF some THEN [windows EXCEPT ![next].isFocused = TRUE]
                              ELSE windows,
          focusedWindowId |-> IF some THEN windows[next].id ELSE Null ])

minimizeWindow(s, id) ==
  LET windows == updateWindow(s.windows, id, [isMinimized |-> TRUE, isFocused |-> FALSE])
      some    == VisibleIdx(windows) # {}
      next    == NextVisible(windows)
  IN  updateState(s,
        [ windows         |-> IF some THEN [windows EXCEPT ![next].isFocused = TRUE]
                              ELSE windows,
          focusedWindowId |-> IF some THEN windows[next].id ELSE Null ])

\* restoreWindow that only clears the minimized flag.
restoreWindowUnminimize(s, id) ==
  updateState(s, [windows |-> updateWindow(s.windows, id, [isMinimized |-> FALSE])])

restoreWindow(s, id) == focusWindow(s, id)

\* maximizeWindow that fills the whole viewport, chrome included.
maximizeWindowFullHeight(s, id) ==
  updateState(s,
    [ windows |-> updateWindow(s.windows, id,
                    [ position |-> [x |-> 0, y |-> 0],
                      size     |-> [ width  |-> s.desktopSize.width,
                                     height |-> s.desktopSize.height ] ]) ])

maximizeWindow(s, id) ==
  updateState(s,
    [ windows |-> updateWindow(s.windows, id,
                    [ position |-> [x |-> 0, y |-> 0],
                      size     |-> [ width  |-> s.desktopSize.width,
                                     height |-> s.desktopSize.height - 80 ] ]) ])

centerWindow(s, id) ==
  LET halfWidth    == s.desktopSize.width \div 2
      centerHeight == ((s.desktopSize.height - 80) * 7) \div 10
      x            == (s.desktopSize.width - halfWidth) \div 2
  IN  updateState(s,
        [ windows |-> updateWindow(s.windows, id,
                        [ position |-> [x |-> x, y |-> 80],
                          size     |-> [width |-> halfWidth, height |-> centerHeight] ]) ])

updateWindowPosition(s, id, position) ==
  updateState(s, [windows |-> updateWindow(s.windows, id, [position |-> position])])

updateWindowSize(s, id, size) ==
  updateState(s, [windows |-> updateWindow(s.windows, id, [size |-> size])])

updateDesktopSize(s, size) == updateState(s, [desktopSize |-> size])

\* ------------------------------------------------------------- persistence

\* JSON values that are not what the record's field should hold: a missing
\* key, a string where a list is expected, and the array [1], whose element
\* is no [key, value] pair.  Each is kept apart from every list of windows or
\* of entries.
Undefined == <<[jsValue |-> "undefined"]>>

NotAnArray == <<[jsValue |-> "string"]>>

BadEntries == <<[jsValue |-> "number"]>>

\* Array.isArray
isArray(v) == v \notin {Undefined, NotAnArray}

\* parsed.theme of a record without a theme key
NoTheme == "<undefined>"

\* Stored text that JSON.parse rejects, and text that parses to a number.
Unparseable == [json |-> "unparseable"]

NonObject == [json |-> "number"]

\* Map.prototype.set on the entry list of a Map, which keeps insertion order:
\* an existing key keeps its place and takes the new value.
MapSet(m, appId, position) ==
  IF \E i \in 1..Len(m) : m[i].appId = appId
  THEN [i \in 1..Len(m) |-> IF m[i].appId = appId
                            THEN [appId |-> appId, position |-> position] ELSE m[i]]
  ELSE Append(m, [appId |-> appId, position |-> position])

\* new Map(entries)
RECURSIVE MapFrom(_, _)
MapFrom(m, entries) ==
  IF entries = <<>> THEN m
  ELSE MapFrom(MapSet(m, Head(entries).appId, Head(entries).position), Tail(entries))

newMap(entries) == MapFrom(<<>>, entries)

\* The object saveToLocalStorage serializes.  JSON.stringify and JSON.parse
\* keep the strings, numbers, booleans, lists and plain objects of this
\* record as they are, and drop and give back a missing key as missing.
stateToSave(s) ==
  [theme |-> s.theme, windows |-> s.windows, iconPositions |-> s.iconPositions]

\* saveToLocalStorage that lets the exception of setItem through.
saveToLocalStorageUncaught(s, saved, ok) ==
  [storage |-> IF ok THEN <<stateToSave(s)>> ELSE saved, raised |-> ~ok]

\* saveToLocalStorage with `saved` the stored entry before the call; setItem
\* throws when `ok` is false (quota exceeded, storage unavailable), the
\* catch logs it.  The result is the stored entry after the call and whether
\* the caller sees an exception.
saveToLocalStorage(s, saved, ok) ==
  [storage |-> IF ok THEN <<stateToSave(s)>> ELSE saved, raised |-> FALSE]

\* loadFromLocalStorage that keeps the entry it could not parse.
loadFromLocalStorageKeepEntry(s, saved) ==
  IF saved = <<>> THEN [state |-> s, storage |-> saved]
  ELSE
    LET parsed == saved[1]
    IN  IF "json" \in DOMAIN parsed
        THEN [state |-> s, storage |-> saved]
        ELSE
          LET themed == IF parsed.theme \in THEMES THEN [s EXCEPT !.theme = parsed.theme]
                        ELSE s
          IN  IF parsed.iconPositions = BadEntries
              THEN [state |-> themed, storage |-> <<>>]
              ELSE [ state   |-> [themed EXCEPT
                                    !.iconPositions = IF isArray(parsed.iconPositions)
                                                      THEN newMap(parsed.iconPositions)
                                                      ELSE @,
                                    !.windows = parsed.windows],
                     storage |-> saved ]

\* loadFromLocalStorage that restores the theme and nothing else.
loadFromLocalStorageThemeOnly(s, saved) ==
  IF saved = <<>> THEN [state |-> s, storage |-> saved]
  ELSE
    LET parsed == saved[1]
    IN  IF "json" \in DOMAIN parsed
        THEN IF parsed = Unparseable THEN [state |-> s, storage |-> <<>>]
             ELSE [state |-> s, storage |-> saved]
        ELSE [ state   |-> IF parsed.theme \in THEMES THEN [s EXCEPT !.theme = parsed.theme]
                           ELSE s,
               storage |-> saved ]

\* loadFromLocalStorage on a store in state s, with `saved` what getItem
\* returns: <<>> for null, else the stored text by what JSON.parse makes of
\* it.  The result is the state and the stored entry after the call: a parse
\* error, or the TypeError of new Map on bad entries, ends in the catch,
\* which removes the entry and keeps what was assigned before the throw.
loadFromLocalStorage(s, saved) ==
  IF saved = <<>> THEN [state |-> s, storage |-> saved]
  ELSE
    LET parsed == saved[1]
    IN  IF "json" \in DOMAIN parsed
        THEN IF parsed = Unparseable THEN [state |-> s, storage |-> <<>>]
             ELSE [state |-> s, storage |-> saved]
        ELSE
          LET themed == IF parsed.theme \in THEMES THEN [s EXCEPT !.theme = parsed.theme]
                        ELSE s
          IN  IF parsed.iconPositions = BadEntries
              THEN [state |-> themed, storage |-> <<>>]
              ELSE [ state   |-> [themed EXCEPT
                                    !.iconPositions = IF isArray(parsed.iconPositions)
                                                      THEN newMap(parsed.iconPositions)
                                                      ELSE @,
                                    !.windows = parsed.windows],
                     storage |-> saved ]

setTheme(s, theme) == updateState(s, [theme |-> theme])

\* this.state.iconPositions = new Map(positions), positions a Map
setIconPositions(s, positions) == [s EXCEPT !.iconPositions = newMap(positions)]

\* this.state.iconPositions.set(appId, position)
updateIconPosition(s, appId, position) ==
  [s EXCEPT !.iconPositions = MapSet(@, appId, position)]

\* -------------------------------------------------------- window component

TOPBAR_HEIGHT == 32

APPBAR_HEIGHT == 48

\* The value JavaScript computes from undefined + number; any sum with it is
\* NaN again, Math.min and Math.max return it and every comparison with it
\* is false.  It is kept apart from every coordinate.
NaN == -999999

plus(a, b) == IF a = NaN \/ b = NaN THEN NaN ELSE a + b

minus(a, b) == IF a = NaN \/ b = NaN THEN NaN ELSE a - b

\* The event object of the given type with the pointer at e: a mouse event
\* has clientX and clientY, a touch event has them in touches[0] only.
event(type, e) == IF type \in {"touchstart", "touchmove"} THEN [touches |-> <<e>>] ELSE e

\* e[k] || e.touches?.[0][k], for k clientX or clientY: 0 is falsy, so a
\* mouse event at coordinate 0 gives undefined, which the arithmetic that
\* follows turns into NaN.
clientCoord(e, k) ==
  IF k \in DOMAIN e /\ e[k] # 0 THEN e[k]
  ELSE IF "touches" \in DOMAIN e THEN e.touches[1][k]
  ELSE NaN

\* r, computed from v by Math.min, Math.max and comparisons only.
nanOr(v, r) == IF v = NaN THEN NaN ELSE r

getAvailableDesktopBounds(desktopSize) ==
  [ width  |-> desktopSize.width,
    height |-> desktopSize.height - TOPBAR_HEIGHT - APPBAR_HEIGHT ]

constrainSize(size, minSize, maxSize) ==
  [ width  |-> Max(minSize.width, Min(size.width, maxSize.width)),
    height |-> Max(minSize.height, Min(size.height, maxSize.height)) ]

\* Where a pointer goes down on the title bar or on a resize handle, and the
\* samples of its movement: 30 px to the right, far beyond the desktop, and
\* at the left edge of the viewport.
PointerStarts == {[clientX |-> 400, clientY |-> 300]}

PointerSamples ==
  { [clientX |-> 430, clientY |-> 300], [clientX |-> 1500, clientY |-> 900],
    [clientX |-> 0, clientY |-> 300] }

\* The resize handles followed in gestures.
GestureHandles == {<<"e">>, <<"n", "w">>}

\* An os-window element as its constructor leaves it, not yet given a window
\* nor connected.  listeners: which of its bound handlers are registered on
\* the document, in the order of registration ("drag" for _boundHandleDrag
\* and _boundHandleDragEnd, "resize" for _boundHandleResize and
\* _boundHandleResizeEnd).  begun: how many gestures have begun on the page.
newOSWindow ==
  [ windowId        |-> Null,
    isConnected     |-> FALSE,
    _isDragging     |-> FALSE,
    _isResizing     |-> FALSE,
    _dragStart      |-> <<>>,
    _resizeHandle   |-> <<>>,
    _originalWindow |-> <<>>,
    listeners       |-> <<>>,
    begun           |-> 0 ]

\* this.windowData: the record of the element's window, as rendered before
\* the event being handled.
windowData(s, ow) ==
  s.windows[CHOOSE i \in 1..Len(s.windows) : s.windows[i].id = ow.windowId]

\* What the handlers of one event work on: the store's state, the element,
\* and the store commands issued so far, in order.
Context(s, ow) == [state |-> s, osWindow |-> ow, commands |-> <<>>]

issue(ctx, op, id, args, s) ==
  [ctx EXCEPT !.state = s, !.commands = Append(@, [op |-> op, id |-> id, args |-> args])]

\* The desktop's listener for the element's 'focus' event.
onFocus(ctx, id) == issue(ctx, "focusWindow", id, NoArgs, focusWindow(ctx.state, id))

_handleFocus(ctx, wd) == IF ~wd.isFocused THEN onFocus(ctx, wd.id) ELSE ctx

addEventListener(listeners, l) ==
  IF \E i \in 1..Len(listeners) : listeners[i] = l THEN listeners ELSE Append(listeners, l)

removeEventListener(listeners, l) ==
  LET keep(x) == x # l IN SelectSeq(listeners, keep)

\* _handleDragStart that leaves the focus as it is.
_handleDragStartNoFocus(ctx, wd, e) ==
  [ ctx EXCEPT !.osWindow =
      [ @ EXCEPT !._isDragging = TRUE,
                 !._dragStart = << [ x |-> clientCoord(e, "clientX"),
                                     y |-> clientCoord(e, "clientY"),
                                     windowX |-> wd.position.x,
                                     windowY |-> wd.position.y ] >>,
                 !.listeners = addEventListener(@, "drag") ] ]

_handleDragStart(ctx, wd, e) ==
  LET c == _handleFocus(ctx, wd)
  IN  [ c EXCEPT !.osWindow =
          [ @ EXCEPT !._isDragging = TRUE,
                     !._dragStart = << [ x |-> clientCoord(e, "clientX"),
                                         y |-> clientCoord(e, "clientY"),
                                         windowX |-> wd.position.x,
                                         windowY |-> wd.position.y ] >>,
                     !.listeners = addEventListener(@, "drag") ] ]

\* _handleDrag that moves the window by the pointer's distance from where the
\* window is now.
_handleDragIncremental(ctx, wd, e) ==
  IF ~ctx.osWindow._isDragging THEN ctx
  ELSE
    LET ds     == ctx.osWindow._dragStart[1]
        deltaX == minus(clientCoord(e, "clientX"), ds.x)
        deltaY == minus(clientCoord(e, "clientY"), ds.y)
        newX   == plus(wd.position.x, deltaX)
        newY   == plus(wd.position.y, deltaY)
        availableBounds == getAvailableDesktopBounds(ctx.state.desktopSize)
        constrained == constrainPosition([x |-> newX, y |-> newY], wd.size, availableBounds)
        snapped     == snapToEdge(constrained, wd.size, availableBounds, <<>>)
        position    == [x |-> nanOr(newX, snapped.x), y |-> nanOr(newY, snapped.y)]
    IN  issue(ctx, "updateWindowPosition", wd.id, [NoArgs EXCEPT !.position = <<position>>],
              updateWindowPosition(ctx.state, wd.id, position))

\* _handleDrag.  _dragStart.windowX is undefined when _handleResizeStart has
\* written _dragStart since the drag began.
_handleDrag(ctx, wd, e) ==
  IF ~ctx.osWindow._isDragging THEN ctx
  ELSE
    LET ds     == ctx.osWindow._dragStart[1]
        deltaX == minus(clientCoord(e, "clientX"), ds.x)
        deltaY == minus(clientCoord(e, "clientY"), ds.y)
        newX   == IF "windowX" \in DOMAIN ds THEN plus(ds.windowX, deltaX) ELSE NaN
        newY   == IF "windowY" \in DOMAIN ds THEN plus(ds.windowY, deltaY) ELSE NaN
        availableBounds == getAvailableDesktopBounds(ctx.state.desktopSize)
        constrained == constrainPosition([x |-> newX, y |-> newY], wd.size, availableBounds)
        snapped     == snapToEdge(constrained, wd.size, availableBounds, <<>>)
        position    == [x |-> nanOr(newX, snapped.x), y |-> nanOr(newY, snapped.y)]
    IN  issue(ctx, "updateWindowPosition", wd.id, [NoArgs EXCEPT !.position = <<position>>],
              updateWindowPosition(ctx.state, wd.id, position))

_handleDragEnd(ctx) ==
  [ ctx EXCEPT !.osWindow =
      [ @ EXCEPT !._isDragging = FALSE,
                 !._dragStart = <<>>,
                 !.listeners = removeEventListener(@, "drag") ] ]

_handleResizeStart(ctx, wd, e, handle) ==
  LET c == _handleFocus(ctx, wd)
  IN  [ c EXCEPT !.osWindow =
          [ @ EXCEPT !._isResizing = TRUE,
                     !._resizeHandle = <<handle>>,
                     !._dragStart = <<[x |-> e.clientX, y |-> e.clientY]>>,
                     !._originalWindow = <<[position |-> wd.position, size |-> wd.size]>>,
                     !.listeners = addEventListener(@, "resize") ] ]

\* _handleResize.  _dragStart is null when _handleDragEnd has run since the
\* resize began, and reading its x raises a TypeError; the position captured
\* at the start is NaN when the window's was.
_handleResize(ctx, wd, e) ==
  IF ~ctx.osWindow._isResizing THEN ctx
  ELSE IF ctx.osWindow._dragStart = <<>>
  THEN [ctx EXCEPT !.commands = Append(@, [op |-> Throws, id |-> wd.id, args |-> NoArgs])]
  ELSE
    LET original == ctx.osWindow._originalWindow[1]
        minSize  == [width |-> WINDOW_MIN_WIDTH, height |-> WINDOW_MIN_HEIGHT]
        r == calculateResize(ctx.osWindow._resizeHandle[1], ctx.osWindow._dragStart[1],
                             [x |-> e.clientX, y |-> e.clientY], original, minSize)
        availableBounds == getAvailableDesktopBounds(ctx.state.desktopSize)
        constrainedSize == constrainSize(r.size, minSize, availableBounds)
        constrainedPos  == constrainPosition(r.position, constrainedSize, availableBounds)
        position == [ x |-> nanOr(original.position.x, constrainedPos.x),
                      y |-> nanOr(original.position.y, constrainedPos.y) ]
        c == issue(ctx, "updateWindowPosition", wd.id,
                   [NoArgs EXCEPT !.position = <<position>>],
                   updateWindowPosition(ctx.state, wd.id, position))
    IN  issue(c, "updateWindowSize", wd.id, [NoArgs EXCEPT !.size = <<constrainedSize>>],
              updateWindowSize(c.state, wd.id, constrainedSize))

_handleResizeEnd(ctx) ==
  [ ctx EXCEPT !.osWindow =
      [ @ EXCEPT !._isResizing = FALSE,
                 !._resizeHandle = <<>>,
                 !._originalWindow = <<>>,
                 !.listeners = removeEventListener(@, "resize") ] ]

\* disconnectedCallback that only removes the listeners.
disconnectedCallbackKeepSession(ctx) ==
  [ ctx EXCEPT !.osWindow = [@ EXCEPT !.isConnected = FALSE, !.listeners = <<>>] ]

disconnectedCallback(ctx) ==
  LET c1 == IF ctx.osWindow._isDragging THEN _handleDragEnd(ctx) ELSE ctx
      c2 == IF c1.osWindow._isResizing THEN _handleResizeEnd(c1) ELSE c1
  IN  [ c2 EXCEPT !.osWindow = [@ EXCEPT !.isConnected = FALSE, !.listeners = <<>>] ]

\* One registered listener of the document called with an event of the
\* given type: mousemove and touchmove go to _boundHandleDrag, mousemove to
\* _boundHandleResize, mouseup and touchend to _boundHandleDragEnd, mouseup
\* to _boundHandleResizeEnd.
listener(ctx, wd, type, e, l) ==
  CASE l = "drag" /\ type \in {"mousemove", "touchmove"} -> _handleDrag(ctx, wd, e)
    [] l = "drag" /\ type \in {"mouseup", "touchend"} -> _handleDragEnd(ctx)
    [] l = "resize" /\ type = "mousemove" -> _handleResize(ctx, wd, e)
    [] l = "resize" /\ type = "mouseup" -> _handleResizeEnd(ctx)
    [] OTHER -> ctx

\* The document dispatches an event to the listeners registered when the
\* dispatch starts, in the order of registration.
RECURSIVE dispatch(_, _, _, _, _)
dispatch(ctx, wd, type, e, listeners) ==
  IF listeners = <<>> THEN ctx
  ELSE dispatch(listener(ctx, wd, type, e, Head(listeners)), wd, type, e, Tail(listeners))

\* ----------------------------------------------------------- desktop icons

\* The applications of the registry, each with what the icon grid reads of
\* it: id, component and defaultSize.
APP_REGISTRY ==
  << [id |-> "about",    component |-> "about-app",    defaultSize |-> [width |-> 600, height |-> 500]],
     [id |-> "terminal", component |-> "terminal-app", defaultSize |-> [width |-> 800, height |-> 600]],
     [id |-> "projects", component |-> "projects-app", defaultSize |-> [width |-> 900, height |-> 700]],
     [id |-> "contact",  component |-> "contact-app",  defaultSize |-> [width |-> 500, height |-> 600]],
     [id |-> "settings", component |-> "settings-app", defaultSize |-> [width |-> 600, height |-> 500]],
     [id |-> "files",    component |-> "files-app",    defaultSize |-> [width |-> 800, height |-> 600]] >>

\* The applications whose icons are followed.
Apps == SubSeq(APP_REGISTRY, 1, MaxApps)

AppIds == {Apps[i].id : i \in 1..Len(Apps)}

getAppById(id) == Apps[CHOOSE i \in 1..Len(Apps) : Apps[i].id = id]

\* Where a mouse button goes down on an icon (the left button, and another
\* one), where the pointer is sampled afterwards (3 px away, and 40 px away),
\* and the keys pressed on an icon that has the keyboard focus.
IconPresses ==
  {[clientX |-> 50, clientY |-> 50, button |-> b] : b \in {0, 2}}

IconSamples ==
  {[clientX |-> 53, clientY |-> 50], [clientX |-> 90, clientY |-> 60]}

IconReleases == {[clientX |-> 50, clientY |-> 50], [clientX |-> 90, clientY |-> 60]}

IconKeys == {"Enter", " ", "a"}

\* A desktop-icon element as its constructor leaves it.
newDesktopIcon ==
  [ _dragStart        |-> <<>>,
    _originalPosition |-> <<>>,
    _hasDragged       |-> FALSE,
    dragging          |-> FALSE ]

\* The desktop-icons-grid element as its constructor leaves it, with the
\* icon elements it renders.  listeners: the icons whose bound mousemove and
\* mouseup handlers are registered on the document, in the order of
\* registration.  pressed: how many times a button went down on an icon.
newDesktopIconsGrid ==
  [ isConnected    |-> FALSE,
    _iconPositions |-> <<>>,
    _selectedIcons |-> {},
    icons          |-> [a \in AppIds |-> newDesktopIcon],
    listeners      |-> <<>>,
    pressed        |-> 0 ]

\* What the handlers of one event on the icons work on: the store's state,
\* the stored entry, the grid with its icons, and the store commands issued
\* so far, in order.
IconContext(s, saved, grid) ==
  [state |-> s, storage |-> saved, grid |-> grid, commands |-> <<>>]

\* Map.prototype.get
MapGet(m, appId) ==
  IF \E i \in 1..Len(m) : m[i].appId = appId
  THEN <<m[CHOOSE i \in 1..Len(m) : m[i].appId = appId].position>>
  ELSE <<>>

\* The position the grid renders an icon with:
\* this._iconPositions.get(app.id) || { x: 0, y: 0 }
iconPosition(grid, appId) ==
  IF MapGet(grid._iconPositions, appId) # <<>> THEN MapGet(grid._iconPositions, appId)[1]
  ELSE [x |-> 0, y |-> 0]

\* The store's setIconPositions called by the grid: it replaces the map,
\* notifies and saves at once; setItem throws when `ok` is false.
callSetIconPositions(ctx, ok) ==
  LET s == setIconPositions(ctx.state, ctx.grid._iconPositions)
      c == issue(ctx, "setIconPositions", Null, [positions |-> ctx.grid._iconPositions], s)
  IN  [c EXCEPT !.storage = saveToLocalStorage(s, ctx.storage, ok).storage]

\* _createDefaultPositions: a grid of 8 columns from (20, 20), 100 px apart,
\* saved to the store.
_createDefaultPositions(ctx, ok) ==
  LET positions ==
        [ i \in 1..Len(Apps) |->
            [ appId    |-> Apps[i].id,
              position |-> [ x |-> 20 + ((i - 1) % 8) * 100,
                             y |-> 20 + ((i - 1) \div 8) * 100 ] ] ]
  IN  callSetIconPositions(
        [ctx EXCEPT !.grid._iconPositions = MapFrom(ctx.grid._iconPositions, positions)], ok)

_initializeIconPositions(ctx, ok) ==
  IF Len(ctx.state.iconPositions) > 0
  THEN [ctx EXCEPT !.grid._iconPositions = newMap(ctx.state.iconPositions)]
  ELSE _createDefaultPositions(ctx, ok)

\* this.state.windows.find(w => w.component === component), <<>> if none.
findWindowByComponent(s, component) ==
  LET found == {i \in 1..Len(s.windows) : s.windows[i].component = component}
  IN  IF found = {} THEN <<>>
      ELSE <<s.windows[CHOOSE i \in found : \A j \in found : i <= j]>>

\* _handleIconLaunch that opens a window whenever none of the application
\* has the focus.
_handleIconLaunchUnfocused(ctx, appData, gen) ==
  LET existing == findWindowByComponent(ctx.state, appData.component)
      config   == [ id |-> <<>>, position |-> <<>>, size |-> <<appData.defaultSize>>,
                    component |-> appData.component ]
      c == IF existing # <<>> /\ existing[1].isFocused
           THEN issue(ctx, "focusWindow", existing[1].id, NoArgs,
                      focusWindow(ctx.state, existing[1].id))
           ELSE issue(ctx, "openWindow", gen, config, openWindow(ctx.state, config, gen).state)
  IN  [c EXCEPT !.grid._selectedIcons = {}]

\* _handleIconLaunch, the grid's listener of 'icon-launch', with `gen` the id
\* generateWindowId returns when asked.
_handleIconLaunch(ctx, appData, gen) ==
  LET existing == findWindowByComponent(ctx.state, appData.component)
      config   == [ id |-> <<>>, position |-> <<>>, size |-> <<appData.defaultSize>>,
                    component |-> appData.component ]
      c == IF existing # <<>>
           THEN IF existing[1].isMinimized
                THEN issue(ctx, "restoreWindow", existing[1].id, NoArgs,
                           restoreWindow(ctx.state, existing[1].id))
                ELSE issue(ctx, "focusWindow", existing[1].id, NoArgs,
                           focusWindow(ctx.state, existing[1].id))
           ELSE issue(ctx, "openWindow", gen, config, openWindow(ctx.state, config, gen).state)
  IN  [c EXCEPT !.grid._selectedIcons = {}]

\* _launchApp: the icon dispatches 'icon-launch', which bubbles to the grid.
_launchApp(ctx, appId, gen) == _handleIconLaunch(ctx, getAppById(appId), gen)

\* _handleIconDrag, the grid's listener of 'icon-drag'.
_handleIconDrag(ctx, appId, position) ==
  [ctx EXCEPT !.grid._iconPositions = MapSet(@, appId, position)]

\* The grid's _constrainPosition, with the viewport window.innerWidth x
\* window.innerHeight.
_constrainPosition(position, viewport) ==
  [ x |-> Max(0, Min(position.x, viewport.width - 100)),
    y |-> Max(0, Min(position.y, viewport.height - 150)) ]

\* _handleIconDrop, the grid's listener of 'icon-drop'.
_handleIconDrop(ctx, appId, position, ok) ==
  LET constrained == _constrainPosition(position, ctx.state.desktopSize)
  IN  callSetIconPositions(
        [ctx EXCEPT !.grid._iconPositions = MapSet(@, appId, constrained)], ok)

\* The icon's mousedown listener.
_handleMouseDown(ctx, appId, e) ==
  IF e.button # 0 THEN ctx
  ELSE [ ctx EXCEPT
           !.grid.icons[appId] =
             [ @ EXCEPT !._hasDragged = FALSE,
                        !._dragStart = <<[x |-> e.clientX, y |-> e.clientY]>>,
                        !._originalPosition = <<iconPosition(ctx.grid, appId)>> ],
           !.grid.listeners = addEventListener(@, appId) ]

Abs(n) == IF n < 0 THEN -n ELSE n

\* The icon's mousemove listener on the document.
_handleMouseMove(ctx, appId, e) ==
  LET icon == ctx.grid.icons[appId]
  IN  IF icon._dragStart = <<>> THEN ctx
      ELSE
        LET deltaX == e.clientX - icon._dragStart[1].x
            deltaY == e.clientY - icon._dragStart[1].y
            starts == ~icon._hasDragged /\ (Abs(deltaX) > 5 \/ Abs(deltaY) > 5)
            c == IF starts
                 THEN [ctx EXCEPT !.grid.icons[appId]._hasDragged = TRUE,
                                  !.grid.icons[appId].dragging = TRUE]
                 ELSE ctx
        IN  IF c.grid.icons[appId]._hasDragged
            THEN _handleIconDrag(c, appId, [ x |-> icon._originalPosition[1].x + deltaX,
                                              y |-> icon._originalPosition[1].y + deltaY ])
            ELSE c

\* The icon's mouseup listener on the document.
_handleMouseUp(ctx, appId, e, gen, ok) ==
  LET icon == ctx.grid.icons[appId]
  IN  IF icon._dragStart = <<>> THEN ctx
      ELSE
        LET deltaX == e.clientX - icon._dragStart[1].x
            deltaY == e.clientY - icon._dragStart[1].y
            c1 == [ctx EXCEPT !.grid.listeners = removeEventListener(@, appId)]
            c2 == IF icon._hasDragged
                  THEN [ _handleIconDrop(c1, appId,
                                         [ x |-> icon._originalPosition[1].x + deltaX,
                                           y |-> icon._originalPosition[1].y + deltaY ], ok)
                         EXCEPT !.grid.icons[appId].dragging = FALSE ]
                  ELSE _launchApp(c1, appId, gen)
        IN  [ c2 EXCEPT !.grid.icons[appId] =
                [ @ EXCEPT !._dragStart = <<>>, !._originalPosition = <<>>,
                           !._hasDragged = FALSE ] ]

\* The icon's keydown listener.
_handleKeyDown(ctx, appId, key, gen) ==
  IF key = "Enter" \/ key = " " THEN _launchApp(ctx, appId, gen) ELSE ctx

\* _handleDesktopClick, for a click on the grid's own container.
_handleDesktopClick(ctx) == [ctx EXCEPT !.grid._selectedIcons = {}]

\* The document dispatches a mousemove or a mouseup to the icon listeners
\* registered when the dispatch starts, in the order of registration.  An id
\* generated for a window is not generated again.
RECURSIVE dispatchIcons(_, _, _, _, _, _)
dispatchIcons(ctx, type, e, gens, ok, listeners) ==
  IF listeners = <<>> THEN ctx
  ELSE
    LET c == IF type = "mousemove" THEN _handleMouseMove(ctx, Head(listeners), e)
             ELSE _handleMouseUp(ctx, Head(listeners), e, Head(gens), ok)
        opened == Len(c.state.windows) > Len(ctx.state.windows)
    IN  dispatchIcons(c, type, e, IF opened THEN Tail(gens) ELSE gens, ok, Tail(listeners))

\* ----------------------------------------------------------------- actions

LiveIds == {state.windows[i].id : i \in 1..Len(state.windows)}

\* The last call made on the store: the command, the window id it was about
\* (for openWindow, the id it returned), its other arguments and its result.
\* For the constructor the argument is what it found in storage.
Call(op, id, args, ret) == [op |-> op, id |-> id, args |-> args, ret |-> ret]

\* generateWindowId: an id no live window has (a timestamp and nine random
\* characters); which one is immaterial, the model takes the first unused name.
generateWindowId ==
  GenIdNames[CHOOSE i \in 1..Len(GenIdNames) :
               /\ GenIdNames[i] \notin LiveIds
               /\ \A j \in 1..(i - 1) : GenIdNames[j] \in LiveIds]

\* A subscriber that starts a timer only when none is pending.
notifyNoRearm == saveTimeout' = IF saveTimeout = 0 THEN TimerTicks ELSE saveTimeout

\* A subscriber that sets no timer.
notifyNoTimer == saveTimeout' = saveTimeout

\* The subscriber setupAutoSave registers, run by notify(): it clears the
\* pending save timer and sets a new one of 1000 ms.
notify == saveTimeout' = TimerTicks

\* A first visit: nothing is stored, the constructor's load returns at
\* `if (!saved) return` and no timer is pending.
Init ==
  /\ state \in {initialState(d) : d \in DesktopSizes}
  /\ last = Call("new", Null, [saved |-> <<>>], Null)
  /\ storage = <<>>
  /\ saveTimeout = 0
  /\ osWindow = newOSWindow
  /\ desktopIcons = newDesktopIconsGrid

OpenWindow(limit, configs) ==
  \E config \in configs :
    /\ Len(state.windows) < limit
    /\ state.nextZIndex < WINDOW_BASE + MaxZ
    /\ state' = openWindow(state, config, generateWindowId).state
    /\ last' = Call("openWindow", openWindow(state, config, generateWindowId).ret, config,
                    openWindow(state, config, generateWindowId).ret)
    /\ notify
    /\ UNCHANGED <<storage, osWindow, desktopIcons>>

CloseWindow(limit) ==
  \E id \in Ids(limit) :
    /\ state' = closeWindow(state, id)
    /\ last' = Call("closeWindow", id, NoArgs, Null)
    /\ notify
    /\ UNCHANGED <<storage, osWindow, desktopIcons>>

FocusWindow(limit) ==
  \E id \in Ids(limit) :
    /\ state.nextZIndex < WINDOW_BASE + MaxZ
    /\ state' = focusWindow(state, id)
    /\ last' = Call("focusWindow", id, NoArgs, Null)
    /\ notify
    /\ UNCHANGED <<storage, osWindow, desktopIcons>>

MinimizeWindow(limit) ==
  \E id \in Ids(limit) :
    /\ state' = minimizeWindow(state, id)
    /\ last' = Call("minimizeWindow", id, NoArgs, Null)
    /\ notify
    /\ UNCHANGED <<storage, osWindow, desktopIcons>>

RestoreWindow(limit) ==
  \E id \in Ids(limit) :
    /\ state.nextZIndex < WINDOW_BASE + MaxZ
    /\ state' = restoreWindow(state, id)
    /\ last' = Call("restoreWindow", id, NoArgs, Null)
    /\ notify
    /\ UNCHANGED <<storage, osWindow, desktopIcons>>

MaximizeWindow(limit) ==
  \E id \in Ids(limit) :
    /\ state' = maximizeWindow(state, id)
    /\ last' = Call("maximizeWindow", id, NoArgs, Null)
    /\ notify
    /\ UNCHANGED <<storage, osWindow, desktopIcons>>

CenterWindow(limit) ==
  \E id \in Ids(limit) :
    /\ state' = centerWindow(state, id)
    /\ last' = Call("centerWindow", id, NoArgs, Null)
    /\ notify
    /\ UNCHANGED <<storage, osWindow, desktopIcons>>

UpdateWindowPosition(limit) ==
  \E id \in Ids(limit), position \in PosInputs :
    /\ state' = updateWindowPosition(state, id, position)
    /\ last' = Call("updateWindowPosition", id, [NoArgs EXCEPT !.position = <<position>>], Null)
    /\ notify
    /\ UNCHANGED <<storage, osWindow, desktopIcons>>

UpdateWindowSize(limit) ==
  \E id \in Ids(limit), size \in SizeInputs :
    /\ state' = updateWindowSize(state, id, size)
    /\ last' = Call("updateWindowSize", id, [NoArgs EXCEPT !.size = <<size>>], Null)
    /\ notify
    /\ UNCHANGED <<storage, osWindow, desktopIcons>>

UpdateDesktopSize ==
  \E size \in ViewportSizes :
    /\ state' = updateDesktopSize(state, size)
    /\ last' = Call("updateDesktopSize", Null, [NoArgs EXCEPT !.size = <<size>>], Null)
    /\ notify
    /\ UNCHANGED <<storage, osWindow, desktopIcons>>

\* A call of constrainPosition; the geometry functions read and write
\* nothing of the store.
ConstrainPosition ==
  \E position \in EnginePositions, size \in EngineSizes, bounds \in EngineBounds :
    /\ last' = Call("constrainPosition", Null,
                    [position |-> position, size |-> size, bounds |-> bounds],
                    constrainPosition(position, size, bounds))
    /\ UNCHANGED <<state, storage, saveTimeout, osWindow, desktopIcons>>

CalculateResize ==
  \E handle \in Handles, startPos \in EngineStarts, delta \in EngineDeltas,
     originalWindowData \in EngineWindows, minSize \in EngineMinSizes :
    LET currentPos == [x |-> startPos.x + delta.x, y |-> startPos.y + delta.y]
    IN  /\ last' = Call("calculateResize", Null,
                        [ handle |-> handle, startPos |-> startPos, currentPos |-> currentPos,
                          originalWindowData |-> originalWindowData, minSize |-> minSize ],
                        calculateResize(handle, startPos, currentPos, originalWindowData, minSize))
        /\ UNCHANGED <<state, storage, saveTimeout, osWindow, desktopIcons>>

\* A call of snapToEdge.
SnapToEdge ==
  \E position \in SnapPositions, size \in SnapSizes, bounds \in SnapBounds,
     threshold \in SnapThresholds :
    /\ last' = Call("snapToEdge", Null,
                    [position |-> position, size |-> size, bounds |-> bounds,
                     threshold |-> threshold],
                    snapToEdge(position, size, bounds, threshold))
    /\ UNCHANGED <<state, storage, saveTimeout, osWindow, desktopIcons>>

\* A call of isOverlapping.
IsOverlapping ==
  \E windowData1 \in OverlapWindows, windowData2 \in OverlapWindows :
    /\ last' = Call("isOverlapping", Null,
                    [windowData1 |-> windowData1, windowData2 |-> windowData2],
                    isOverlapping(windowData1, windowData2))
    /\ UNCHANGED <<state, storage, saveTimeout, osWindow, desktopIcons>>

\* The store after n windows have been opened with no id, position or size.
RECURSIVE CascadeStore(_, _)
CascadeStore(s, n) ==
  IF n = 0 THEN s
  ELSE openWindow(CascadeStore(s, n - 1), NoArgs, "win-" \o ToString(n)).state

\* A call of getCascadePosition with the windows of a store that has opened
\* up to MaxCascade of them.
GetCascadePosition ==
  \E n \in 0..MaxCascade :
    LET windows == CascadeStore(state, n).windows
    IN  /\ last' = Call("getCascadePosition", Null, [windows |-> windows],
                        getCascadePosition(windows))
        /\ UNCHANGED <<state, storage, saveTimeout, osWindow, desktopIcons>>

\* The step an event on the element or on the document makes: the store
\* and the element as its handlers leave them; a store command notifies the
\* subscribers.  The step's result is the list of the commands issued.
Handled(ctx) ==
  /\ ctx.state.nextZIndex <= WINDOW_BASE + MaxZ
  /\ state' = ctx.state
  /\ osWindow' = ctx.osWindow
  /\ saveTimeout' = IF \E i \in 1..Len(ctx.commands) : ctx.commands[i].op # Throws
                    THEN TimerTicks ELSE saveTimeout
  /\ UNCHANGED <<storage, desktopIcons>>

\* The desktop renders an os-window element for a live window.
Connect ==
  \E id \in LiveIds :
    /\ ~osWindow.isConnected
    /\ osWindow' = [newOSWindow EXCEPT !.windowId = id, !.isConnected = TRUE,
                                       !.begun = osWindow.begun]
    /\ last' = Call("connectedCallback", id, NoArgs, <<>>)
    /\ UNCHANGED <<state, storage, saveTimeout, desktopIcons>>

\* The element is removed from the document.
Disconnect ==
  /\ osWindow.isConnected
  /\ Handled(disconnectedCallback(Context(state, osWindow)))
  /\ last' = Call("disconnectedCallback", osWindow.windowId, NoArgs, <<>>)

\* A mouse button or a finger goes down on the title bar: the title bar's
\* 'dragstart' event reaches _handleDragStart; a mousedown then bubbles to
\* the window's own mousedown listener, _handleFocus, the element still
\* holding the windowData it was rendered with.
DragStart ==
  \E type \in {"mousedown", "touchstart"}, e \in PointerStarts :
    LET wd == windowData(state, osWindow)
        c  == _handleDragStart(Context(state, osWindow), wd, event(type, e))
        c2 == IF type = "mousedown" THEN _handleFocus(c, wd) ELSE c
    IN  /\ osWindow.isConnected
        /\ osWindow.begun < MaxGestures
        /\ Handled([c2 EXCEPT !.osWindow.begun = @ + 1])
        /\ last' = Call("dragstart", wd.id, [type |-> type, e |-> e], c2.commands)

\* A mouse button goes down on a resize handle; the event is not propagated.
ResizeStart ==
  \E handle \in GestureHandles, e \in PointerStarts :
    LET c == _handleResizeStart(Context(state, osWindow), windowData(state, osWindow),
                                e, handle)
    IN  /\ osWindow.isConnected
        /\ osWindow.begun < MaxGestures
        /\ Handled([c EXCEPT !.osWindow.begun = @ + 1])
        /\ last' = Call("resizestart", osWindow.windowId, [handle |-> handle, e |-> e],
                        c.commands)

\* The pointer moves, whether or not a handler is listening.
PointerMove ==
  \E type \in {"mousemove", "touchmove"}, e \in PointerSamples :
    LET c == dispatch(Context(state, osWindow), windowData(state, osWindow), type,
                      event(type, e), osWindow.listeners)
    IN  /\ Handled(c)
        /\ last' = Call(type, osWindow.windowId, [e |-> e], c.commands)

\* The mouse button or the finger goes up.
PointerUp ==
  \E type \in {"mouseup", "touchend"} :
    LET c == dispatch(Context(state, osWindow), windowData(state, osWindow), type, NoArgs,
                      osWindow.listeners)
    IN  /\ Handled(c)
        /\ last' = Call(type, osWindow.windowId, NoArgs, c.commands)

\* The ids generateWindowId returns one after the other.
FreshIds ==
  LET fresh(name) == name \notin LiveIds IN SelectSeq(GenIdNames, fresh)

\* The step an event on the desktop icons makes: the store, the stored entry
\* and the grid as the handlers leave them; a store command notifies the
\* subscribers.  The step's result is the list of the commands issued.
\* Storage accepts the writes of these steps.
IconHandled(ctx) ==
  /\ ctx.state.nextZIndex <= WINDOW_BASE + MaxZ
  /\ Len(ctx.state.windows) <= MaxWindows
  /\ state' = ctx.state
  /\ storage' = ctx.storage
  /\ desktopIcons' = ctx.grid
  /\ saveTimeout' = IF ctx.commands # <<>> THEN TimerTicks ELSE saveTimeout
  /\ UNCHANGED osWindow

\* The icon grid is connected and receives the store from its context: it
\* takes the icon positions of the store or creates the default ones.
GridConnect ==
  LET c == _initializeIconPositions(
             IconContext(state, storage, [desktopIcons EXCEPT !.isConnected = TRUE]), TRUE)
  IN  /\ ~desktopIcons.isConnected
      /\ IconHandled(c)
      /\ last' = Call("connectedCallback", Null, NoArgs, c.commands)

\* A mouse button goes down on an icon.
IconMouseDown ==
  \E appId \in AppIds, e \in IconPresses :
    LET c == _handleMouseDown(IconContext(state, storage, desktopIcons), appId, e)
    IN  /\ desktopIcons.isConnected
        /\ desktopIcons.pressed < MaxGestures
        /\ IconHandled([c EXCEPT !.grid.pressed = @ + 1])
        /\ last' = Call("mousedown", appId, [e |-> e], c.commands)

\* The pointer moves while no window gesture is listening.
IconMouseMove ==
  \E e \in IconSamples :
    LET c == dispatchIcons(IconContext(state, storage, desktopIcons), "mousemove", e,
                           FreshIds, TRUE, desktopIcons.listeners)
    IN  /\ osWindow.listeners = <<>>
        /\ IconHandled(c)
        /\ last' = Call("mousemove", Null, [e |-> e], c.commands)

\* The mouse button goes up while no window gesture is listening.
IconMouseUp ==
  \E e \in IconReleases :
    LET c == dispatchIcons(IconContext(state, storage, desktopIcons), "mouseup", e,
                           FreshIds, TRUE, desktopIcons.listeners)
    IN  /\ osWindow.listeners = <<>>
        /\ IconHandled(c)
        /\ last' = Call("mouseup", Null, [e |-> e], c.commands)

\* A key goes down on an icon that has the keyboard focus.
IconKeyDown ==
  \E appId \in AppIds, key \in IconKeys :
    LET c == _handleKeyDown(IconContext(state, storage, desktopIcons), appId, key,
                            generateWindowId)
    IN  /\ desktopIcons.isConnected
        /\ IconHandled(c)
        /\ last' = Call("keydown", appId, [key |-> key], c.commands)

\* A click on the desktop between the icons.
DesktopClick ==
  LET c == _handleDesktopClick(IconContext(state, storage, desktopIcons))
  IN  /\ desktopIcons.isConnected
      /\ IconHandled(c)
      /\ last' = Call("click", Null, NoArgs, c.commands)

SetTheme ==
  \E theme \in ThemeInputs, ok \in BOOLEAN :
    LET s == setTheme(state, theme)
        r == saveToLocalStorage(s, storage, ok)
    IN  /\ state' = s
        /\ notify
        /\ storage' = r.storage
        /\ last' = Call("setTheme", Null, [theme |-> theme, ok |-> ok],
                        IF r.raised THEN Throws ELSE Null)
        /\ UNCHANGED <<osWindow, desktopIcons>>

SetIconPositions ==
  \E positions \in IconMaps, ok \in BOOLEAN :
    LET s == setIconPositions(state, positions)
        r == saveToLocalStorage(s, storage, ok)
    IN  /\ state' = s
        /\ notify
        /\ storage' = r.storage
        /\ last' = Call("setIconPositions", Null, [positions |-> positions, ok |-> ok],
                        IF r.raised THEN Throws ELSE Null)
        /\ UNCHANGED <<osWindow, desktopIcons>>

UpdateIconPosition ==
  \E entry \in IconEntries :
    /\ state' = updateIconPosition(state, entry.appId, entry.position)
    /\ notify
    /\ UNCHANGED <<storage, osWindow, desktopIcons>>
    /\ last' = Call("updateIconPosition", Null, entry, Null)

\* Time passes while the save timer is pending and not yet due.
Tick ==
  /\ saveTimeout > 1
  /\ saveTimeout' = saveTimeout - 1
  /\ last' = Call("tick", Null, NoArgs, Null)
  /\ UNCHANGED <<state, storage, osWindow, desktopIcons>>

\* The save timer is due: its callback calls saveToLocalStorage.
SaveTimer ==
  \E ok \in BOOLEAN :
    LET r == saveToLocalStorage(state, storage, ok)
    IN  /\ saveTimeout = 1
        /\ saveTimeout' = 0
        /\ storage' = r.storage
        /\ last' = Call("saveTimer", Null, [ok |-> ok], IF r.raised THEN Throws ELSE Null)
        /\ UNCHANGED <<state, osWindow, desktopIcons>>

\* The page is reloaded: pending timers are gone, a new store is constructed
\* and loads what is stored.
Reload ==
  \E d \in DesktopSizes :
    LET r == loadFromLocalStorage(initialState(d), storage)
    IN  /\ state' = r.state
        /\ storage' = r.storage
        /\ saveTimeout' = 0
        /\ last' = Call("new", Null, [saved |-> storage], Null)
        /\ osWindow' = newOSWindow
        /\ desktopIcons' = newDesktopIconsGrid

\* The window list an earlier session saved.
StoredWindows ==
  { <<>>,
    openWindow(CHOOSE s \in {initialState(d) : d \in DesktopSizes} : TRUE,
               [NoArgs EXCEPT !.id = <<"app">>], "win-1").state.windows,
    Undefined, NotAnArray }

\* The icon entries found in storage; the second list names an icon twice.
StoredIcons ==
  IconMaps \cup
  { <<[appId |-> "about", position |-> [x |-> 20, y |-> 20]],
      [appId |-> "about", position |-> [x |-> 120, y |-> 20]]>>,
    Undefined, NotAnArray, BadEntries }

\* What can be found under the storage key: text written by this program, by
\* an earlier version of it or by hand.
StoredEntries ==
  {Unparseable, NonObject} \cup
  [theme : {"light", "neon", NoTheme}, windows : StoredWindows, iconPositions : StoredIcons]

\* Something else than this store writes the entry (another tab of the same
\* origin, the developer tools).
ForeignWrite ==
  \E entry \in StoredEntries :
    /\ storage' = <<entry>>
    /\ last' = Call("foreignWrite", Null, NoArgs, Null)
    /\ UNCHANGED <<state, saveTimeout, osWindow, desktopIcons>>

\* The save timer writes the current state and the page is reloaded: a new
\* store is constructed and loads the saved record.  (The record a reload
\* finds is the one written at some earlier state of the session; Restart
\* is enabled in every state, so each such record is covered.)
Restart ==
  \E d \in DesktopSizes :
    /\ state' = loadFromLocalStorage(initialState(d), <<stateToSave(state)>>).state
    /\ last' = Call("new", Null, [saved |-> <<stateToSave(state)>>], Null)
    /\ storage' = <<stateToSave(state)>>
    /\ saveTimeout' = 0
    /\ osWindow' = newOSWindow
    /\ desktopIcons' = newDesktopIconsGrid

\* setTheme while storage accepts the write.
SetThemeAccepted == SetTheme /\ last'.args.ok

\* The save timer is due while storage accepts the write.
SaveTimerAccepted == SaveTimer /\ last'.args.ok

\* The commands that change focus and z-order.
FocusCommand(limit, configs) ==
  \/ OpenWindow(limit, configs)
  \/ CloseWindow(limit)
  \/ FocusWindow(limit)
  \/ MinimizeWindow(limit)
  \/ RestoreWindow(limit)

\* The commands that change a window's geometry.
GeometryCommand(limit) ==
  \/ MaximizeWindow(limit)
  \/ CenterWindow(limit)
  \/ UpdateWindowPosition(limit)
  \/ UpdateWindowSize(limit)

\* Every window command of the store, with every config.
Next == FocusCommand(MaxStoreWindows, Configs) \/ GeometryCommand(MaxStoreWindows)

Spec == Init /\ [][Next]_vars

\* The focus and z-order commands on more windows, opened at the default
\* geometry.
NextFocus == FocusCommand(MaxWindows, IdConfigs)

SpecFocus == Init /\ [][NextFocus]_vars

\* The focus and z-order commands on more windows, opened with every config.
NextOpen == FocusCommand(MaxWindows, Configs)

SpecOpen == Init /\ [][NextOpen]_vars

\* Opening, closing and focusing windows across page reloads, the windows
\* opened at the default geometry.
NextRestart ==
  \/ OpenWindow(MaxStoreWindows, IdConfigs)
  \/ CloseWindow(MaxStoreWindows)
  \/ FocusWindow(MaxStoreWindows)
  \/ Restart

SpecRestart == Init /\ [][NextRestart]_vars

\* Windows that are maximized, minimized and restored while the browser
\* window is resized.
NextGeometry ==
  \/ OpenWindow(MaxStoreWindows, IdConfigs)
  \/ MinimizeWindow(MaxStoreWindows)
  \/ RestoreWindow(MaxStoreWindows)
  \/ MaximizeWindow(MaxStoreWindows)
  \/ UpdateDesktopSize

SpecGeometry == Init /\ [][NextGeometry]_vars

\* Windows, theme and icon positions with their saves, on time and at once,
\* succeeding and failing, and page reloads.
NextStorage ==
  \/ OpenWindow(1, IdConfigs)
  \/ CloseWindow(1)
  \/ SetTheme
  \/ SetIconPositions
  \/ UpdateIconPosition
  \/ Tick
  \/ SaveTimer
  \/ Reload

SpecStorage == Init /\ [][NextStorage]_vars

\* Startup on whatever is stored, and the saves that follow.
NextLoad ==
  \/ ForeignWrite
  \/ Reload
  \/ SetTheme
  \/ UpdateIconPosition
  \/ Tick
  \/ SaveTimer

SpecLoad == Init /\ [][NextLoad]_vars

\* Calls of the geometry functions.
NextEngine ==
  \/ ConstrainPosition
  \/ CalculateResize
  \/ SnapToEdge
  \/ IsOverlapping
  \/ GetCascadePosition

SpecEngine == Init /\ [][NextEngine]_vars

\* Drag and resize gestures on the element of one of up to MaxStoreWindows
\* windows, while the browser window is resized.
NextGesture ==
  \/ OpenWindow(MaxStoreWindows, {NoArgs})
  \/ UpdateDesktopSize
  \/ Connect
  \/ Disconnect
  \/ DragStart
  \/ ResizeStart
  \/ PointerMove
  \/ PointerUp

SpecGesture == Init /\ [][NextGesture]_vars

\* The desktop icons pressed, dragged and launched by mouse and keyboard,
\* and the windows they open closed again.
NextIcons ==
  \/ GridConnect
  \/ IconMouseDown
  \/ IconMouseMove
  \/ IconMouseUp
  \/ IconKeyDown
  \/ DesktopClick
  \/ CloseWindow(MaxStoreWindows)

SpecIcons == Init /\ [][NextIcons]_vars

\* Applications launched from their icons by click and by keyboard, while
\* the windows they open are focused, minimized and closed.
NextLaunch ==
  \/ GridConnect
  \/ IconMouseDown
  \/ IconMouseUp
  \/ IconKeyDown
  \/ FocusWindow(MaxStoreWindows)
  \/ MinimizeWindow(MaxStoreWindows)
  \/ CloseWindow(MaxStoreWindows)

SpecLaunch == Init /\ [][NextLaunch]_vars

\* Windows, theme and icon positions changed while storage accepts every
\* write.  A pending timer is not held back: time passes (Tick) and a due
\* timer's callback is run by the event loop (SaveTimer), as long as no
\* notification clears the timer first.
NextPersist ==
  \/ OpenWindow(1, IdConfigs)
  \/ CloseWindow(1)
  \/ SetThemeAccepted
  \/ UpdateIconPosition
  \/ Tick
  \/ SaveTimerAccepted

SpecPersist ==
  Init /\ [][NextPersist]_vars /\ WF_vars(Tick) /\ WF_vars(SaveTimerAccepted)

\* ------------------------------------------------------------------ claims

Windows == state.windows

Idx(ws) == 1..Len(ws)

FocusedIdx(ws) == {i \in Idx(ws) : ws[i].isFocused}

IdCommands ==
  { "focusWindow", "restoreWindow", "minimizeWindow", "closeWindow", "maximizeWindow",
    "centerWindow", "updateWindowPosition", "updateWindowSize" }

\* C1: focus uniqueness.  In every reachable state at most one window has
\* isFocused; exactly one has it when some window is not minimized; none has
\* it when every window is minimized or there is no window.
C1_FocusUniqueness ==
  /\ Cardinality(FocusedIdx(Windows)) <= 1
  /\ VisibleIdx(Windows) # {} => Cardinality(FocusedIdx(Windows)) = 1
  /\ VisibleIdx(Windows) = {} => FocusedIdx(Windows) = {}

\* C2: not-found is a no-op.  A command that takes a window id and is called
\* with an id no live window has leaves the whole store state as it was.
C2_NotFoundNoOp ==
  [][(last'.op \in IdCommands /\ last'.id \notin LiveIds) => state' = state]_vars

\* C3: zIndex uniqueness.  No two live windows have the same zIndex, in any
\* state reachable from a startup that may restore saved windows.
C3_ZIndexUnique ==
  \A i, j \in Idx(Windows) : i # j => Windows[i].zIndex # Windows[j].zIndex

\* C4: the z-order counter.  openWindow, and focusWindow/restoreWindow of a
\* live window, add exactly 1 to nextZIndex and give the affected window the
\* value the counter had before the call; no other command changes the
\* counter; it never decreases, and every zIndex handed out stays below it,
\* so no value is handed out twice.
C4_ZOrderCounter ==
  [][ LET ws == state'.windows
          nz == state.nextZIndex
      IN  /\ last'.op = "openWindow" =>
               /\ state'.nextZIndex = nz + 1
               /\ ws[Len(ws)].zIndex = nz
          /\ (last'.op \in {"focusWindow", "restoreWindow"} /\ last'.id \in LiveIds) =>
               /\ state'.nextZIndex = nz + 1
               /\ \A i \in Idx(ws) : ws[i].id = last'.id => ws[i].zIndex = nz
          /\ last'.op \notin {"openWindow", "focusWindow", "restoreWindow"} =>
               state'.nextZIndex = nz
          /\ state'.nextZIndex >= nz
          /\ \A i \in Idx(ws) : ws[i].zIndex < state'.nextZIndex ]_vars

\* C4 witness: focusWindow has raised a live window next to another one.
C4_Witness ==
  /\ last.op = "focusWindow"
  /\ Len(Windows) >= 2
  /\ \E i \in Idx(Windows) :
       /\ Windows[i].id = last.id
       /\ Windows[i].zIndex = state.nextZIndex - 1
       /\ Windows[i].zIndex >= WINDOW_BASE + 2

\* C5: id uniqueness.  No two live windows have the same id, also when
\* openWindow is given an id in its config.
C5_IdUnique ==
  \A i, j \in Idx(Windows) : i # j => Windows[i].id # Windows[j].id

\* C6: close focus handoff.  closeWindow(id) of a live window removes exactly
\* the records with that id; if that window was the focused one and windows remain, a
\* remaining window of highest zIndex becomes focused (flag and
\* focusedWindowId); if no window remains focusedWindowId becomes null; if
\* the closed window was not the focused one focusedWindowId is unchanged.
C6_CloseFocusHandoff ==
  [][ (last'.op = "closeWindow" /\ last'.id \in LiveIds) =>
        LET id   == last'.id
            NotId(w) == w.id # id
            rest == SelectSeq(state.windows, NotId)
            ws   == state'.windows
            wasFocused == state.focusedWindowId = id
        IN  /\ Len(ws) = Len(rest)
            /\ \A k \in Idx(rest) : [ws[k] EXCEPT !.isFocused = FALSE]
                                      = [rest[k] EXCEPT !.isFocused = FALSE]
            /\ (wasFocused /\ rest # <<>>) =>
                 \E k \in Idx(rest) :
                   /\ \A j \in Idx(rest) : rest[j].zIndex <= rest[k].zIndex
                   /\ ws[k].isFocused
                   /\ state'.focusedWindowId = rest[k].id
            /\ rest = <<>> => state'.focusedWindowId = Null
            /\ ~wasFocused => state'.focusedWindowId = state.focusedWindowId ]_vars

\* C7: minimized windows never receive focus.  No window is both focused
\* and minimized.
C7_NoMinimizedFocused ==
  \A i \in Idx(Windows) : ~(Windows[i].isFocused /\ Windows[i].isMinimized)

\* C8: minimize focus handoff.  minimizeWindow(id) on a live window leaves it
\* minimized and unfocused; afterwards a non-minimized window of highest
\* zIndex is the focused one and focusedWindowId is its id, and if no
\* non-minimized window remains focusedWindowId is null.
C8_MinimizeFocusHandoff ==
  [][ (last'.op = "minimizeWindow" /\ last'.id \in LiveIds) =>
        LET ws == state'.windows
            V  == {i \in Idx(ws) : ~ws[i].isMinimized}
        IN  /\ Len(ws) = Len(state.windows)
            /\ \A i \in Idx(ws) :
                 ws[i].id = last'.id => (ws[i].isMinimized /\ ~ws[i].isFocused)
            /\ V # {} =>
                 \E k \in V :
                   /\ \A j \in V : ws[j].zIndex <= ws[k].zIndex
                   /\ ws[k].isFocused
                   /\ state'.focusedWindowId = ws[k].id
            /\ V = {} => state'.focusedWindowId = Null ]_vars

\* C8 witness: minimizeWindow has handed the focus to the higher of two
\* visible windows, which is not the first of them in the list.
C8_Witness ==
  /\ last.op = "minimizeWindow"
  /\ \E i, j, k \in Idx(Windows) :
       /\ Windows[i].id = last.id /\ Windows[i].isMinimized
       /\ j < k
       /\ ~Windows[j].isMinimized /\ ~Windows[k].isMinimized
       /\ Windows[j].zIndex < Windows[k].zIndex
       /\ Windows[k].isFocused /\ ~Windows[j].isFocused
       /\ state.focusedWindowId = Windows[k].id

\* The cascade position of a window opened when n windows exist.
C9_Cascade(n) ==
  [x |-> 100 + ((n * 30) % 200), y |-> 100 + ((n * 30) % 200)]

\* C9: openWindow(config) appends exactly one record and returns its id; the
\* record is focused and not minimized, at config.position or else the
\* cascade position for the number of windows before the call, with
\* config.size or else 600 x 400; every window that was there ends unfocused
\* and otherwise unchanged.
C9_OpenWindow ==
  [][ last'.op = "openWindow" =>
        LET config == last'.args
            old    == state.windows
            ws     == state'.windows
            n      == Len(old)
        IN  /\ Len(ws) = n + 1
            /\ last'.ret = ws[n + 1].id
            /\ ws[n + 1].isFocused /\ ~ws[n + 1].isMinimized
            /\ ws[n + 1].position = IF config.position # <<>> THEN config.position[1]
                                    ELSE C9_Cascade(n)
            /\ ws[n + 1].size = IF config.size # <<>> THEN config.size[1]
                                ELSE [width |-> 600, height |-> 400]
            /\ \A i \in 1..n :
                 /\ ~ws[i].isFocused
                 /\ ws[i] = [old[i] EXCEPT !.isFocused = FALSE] ]_vars

\* C9 witness: a third window has been opened at its cascade position with an
\* explicit size, behind a minimized window and one opened at an explicit
\* position.
C9_Witness ==
  /\ last.op = "openWindow"
  /\ Len(Windows) = 3
  /\ last.args.position = <<>> /\ last.args.size # <<>>
  /\ Windows[3].position = [x |-> 160, y |-> 160]
  /\ Windows[3].id = last.ret
  /\ \E i \in 1..2 : Windows[i].isMinimized
  /\ \E i \in 1..2 : Windows[i].position \in PosInputs

\* C10: restoreWindow(id) produces the state focusWindow(id) produces; for a
\* live id the target ends focused and not minimized, every other window
\* ends unfocused with its zIndex, isMinimized, position and size unchanged.
C10_RestoreIsFocus ==
  [][ last'.op = "restoreWindow" =>
        LET id  == last'.id
            old == state.windows
            ws  == state'.windows
        IN  /\ state' = focusWindow(state, id)
            /\ id \in LiveIds =>
                 /\ Len(ws) = Len(old)
                 /\ \A i \in Idx(ws) :
                      IF old[i].id = id
                      THEN ws[i].isFocused /\ ~ws[i].isMinimized
                      ELSE /\ ~ws[i].isFocused
                           /\ ws[i] = [old[i] EXCEPT !.isFocused = FALSE] ]_vars

\* C10 witness: restoreWindow has raised a live window while another window
\* stays minimized and a third stays visible.
C10_Witness ==
  /\ last.op = "restoreWindow"
  /\ \E i, j, k \in Idx(Windows) :
       /\ Windows[i].id = last.id
       /\ Windows[i].isFocused /\ ~Windows[i].isMinimized
       /\ Windows[i].zIndex = state.nextZIndex - 1
       /\ Windows[j].id # last.id /\ Windows[j].isMinimized
       /\ Windows[k].id # last.id /\ ~Windows[k].isMinimized

\* C11: maximizeWindow(id) puts the target at {0,0} with the size
\* {viewport.width, viewport.height - 80} and changes nothing else: the focus,
\* the counter, every window's flags and zIndex and every other window's
\* geometry stay as they were.
C11_MaximizeFrame ==
  [][ last'.op = "maximizeWindow" =>
        LET id  == last'.id
            old == state.windows
            ws  == state'.windows
        IN  /\ Len(ws) = Len(old)
            /\ \A i \in Idx(ws) :
                 IF old[i].id = id
                 THEN ws[i] = [old[i] EXCEPT
                                 !.position = [x |-> 0, y |-> 0],
                                 !.size = [ width  |-> state.desktopSize.width,
                                            height |-> state.desktopSize.height - 80 ]]
                 ELSE ws[i] = old[i]
            /\ state' = [state EXCEPT !.windows = ws] ]_vars

\* C11 witness: a window that is neither focused nor topmost has been
\* maximized in a resized viewport, next to a window left at its cascade
\* position.
C11_Witness ==
  /\ last.op = "maximizeWindow"
  /\ state.desktopSize = [width |-> 800, height |-> 600]
  /\ \E i, j \in Idx(Windows) :
       /\ Windows[i].id = last.id /\ Windows[j].id # last.id
       /\ Windows[i].position = [x |-> 0, y |-> 0]
       /\ Windows[i].size = [width |-> 800, height |-> 520]
       /\ ~Windows[i].isFocused /\ Windows[i].zIndex < Windows[j].zIndex
       /\ Windows[j].position = [x |-> 130, y |-> 130]
       /\ Windows[j].size = [width |-> WINDOW_INITIAL_WIDTH, height |-> WINDOW_INITIAL_HEIGHT]

\* The position and size of every window, in list order.
Geometry(ws) ==
  [i \in Idx(ws) |-> [id |-> ws[i].id, position |-> ws[i].position, size |-> ws[i].size]]

\* C12: minimize keeps geometry.  minimizeWindow(id) changes no window's
\* position or size, and restoreWindow(id) applied to the state it leaves
\* gives every window the position and size it had before the minimize;
\* a restoreWindow step changes no position or size either.
C12_MinimizeKeepsGeometry ==
  [][ /\ last'.op = "minimizeWindow" =>
           /\ Geometry(state'.windows) = Geometry(state.windows)
           /\ Geometry(restoreWindow(state', last'.id).windows) = Geometry(state.windows)
      /\ last'.op = "restoreWindow" =>
           Geometry(state'.windows) = Geometry(state.windows) ]_vars

\* C12 witness: a window that was maximized has been restored with the
\* position and size it was given, while a window at its cascade position
\* stays minimized.
C12_Witness ==
  /\ last.op = "restoreWindow"
  /\ \E i, j \in Idx(Windows) :
       /\ Windows[i].id = last.id /\ Windows[j].id # last.id
       /\ ~Windows[i].isMinimized
       /\ Windows[i].position = [x |-> 0, y |-> 0]
       /\ Windows[i].size = [width |-> 800, height |-> 520]
       /\ Windows[j].isMinimized /\ Windows[j].position = [x |-> 130, y |-> 130]

\* C18: constrainPosition(pos, size, bounds) returns x in
\* [0, max(bounds.width - size.width, 0)] and y in
\* [0, max(bounds.height - size.height, 0)]; when size fits inside bounds the
\* window's box lies within bounds, and on an axis where size exceeds bounds
\* the window is pinned to 0.
C18_ConstrainPosition ==
  last.op = "constrainPosition" =>
    LET size   == last.args.size
        bounds == last.args.bounds
        ret    == last.ret
    IN  /\ 0 <= ret.x /\ ret.x <= Max(bounds.width - size.width, 0)
        /\ 0 <= ret.y /\ ret.y <= Max(bounds.height - size.height, 0)
        /\ (size.width <= bounds.width /\ size.height <= bounds.height) =>
             /\ ret.x + size.width <= bounds.width
             /\ ret.y + size.height <= bounds.height
        /\ size.width > bounds.width => ret.x = 0
        /\ size.height > bounds.height => ret.y = 0

\* C18 witness: a window left of the desktop and wider than it, but not as
\* high, has been pinned to 0 on x and kept inside on y.
C18_Witness ==
  /\ last.op = "constrainPosition"
  /\ last.args.position.x < 0
  /\ last.args.size.width > last.args.bounds.width
  /\ last.args.size.height < last.args.bounds.height
  /\ last.args.position.y > last.ret.y /\ last.ret.y > 0
  /\ last.ret.x = 0

\* C19: clamp idempotence.  Constraining a constrained position again, with
\* the same size and bounds, returns it unchanged.
C19_ClampIdempotent ==
  last.op = "constrainPosition" =>
    constrainPosition(last.ret, last.args.size, last.args.bounds) = last.ret

\* C19 witness: a call that moved the position on both axes.
C19_Witness ==
  /\ last.op = "constrainPosition"
  /\ last.ret.x # last.args.position.x /\ last.ret.x > 0
  /\ last.ret.y # last.args.position.y

\* C20: calculateResize anchors the opposite edge.  For a handle with 'w'
\* the east edge position.x + size.width stays where it was and the width is
\* at least minSize.width; for a handle with 'n' the south edge stays; for a
\* handle with 'e' (resp. 's') position.x (resp. position.y) is returned
\* unchanged; an axis the handle does not name keeps position and size.
C20_ResizeAnchors ==
  last.op = "calculateResize" =>
    LET handle == last.args.handle
        opos   == last.args.originalWindowData.position
        osize  == last.args.originalWindowData.size
        ret    == last.ret
    IN  /\ includes(handle, "w") =>
             /\ ret.position.x + ret.size.width = opos.x + osize.width
             /\ ret.size.width >= last.args.minSize.width
        /\ includes(handle, "n") =>
             ret.position.y + ret.size.height = opos.y + osize.height
        /\ includes(handle, "e") => ret.position.x = opos.x
        /\ includes(handle, "s") => ret.position.y = opos.y
        /\ (~includes(handle, "e") /\ ~includes(handle, "w")) =>
             (ret.position.x = opos.x /\ ret.size.width = osize.width)
        /\ (~includes(handle, "s") /\ ~includes(handle, "n")) =>
             (ret.position.y = opos.y /\ ret.size.height = osize.height)

\* C20 witness: the north-west corner has been dragged far inwards, so that
\* both the width and the height stopped at the minimum.
C20_Witness ==
  /\ last.op = "calculateResize"
  /\ last.args.handle = <<"n", "w">>
  /\ last.ret.size = last.args.minSize
  /\ last.ret.size # last.args.originalWindowData.size
  /\ last.ret.position.x > last.args.originalWindowData.position.x
  /\ last.ret.position.y > last.args.originalWindowData.position.y

\* The entries of an icon map, as a mapping.
Mapping(m) == {m[i] : i \in 1..Len(m)}

\* C13: persistence round trip.  For every store state, saving it and loading
\* the saved record into a fresh store reproduces theme and the window list
\* exactly and the icon positions as a mapping.
C13_RoundTrip ==
  \A d \in DesktopSizes :
    LET loaded == loadFromLocalStorage(initialState(d), <<stateToSave(state)>>).state
    IN  /\ loaded.theme = state.theme
        /\ loaded.windows = state.windows
        /\ Mapping(loaded.iconPositions) = Mapping(state.iconPositions)

\* A stored entry the load cannot use as a whole: unparseable text, text that
\* parses to something else than an object, a theme that is not in the enum,
\* or windows that are not a list.
InvalidRecord(saved) ==
  /\ saved # <<>>
  /\ \/ "json" \in DOMAIN saved[1]
     \/ saved[1].theme \notin THEMES
     \/ ~isArray(saved[1].windows)

\* The store holds its built-in theme, windows and iconPositions.
Defaults ==
  /\ state.theme = "dark"
  /\ state.windows = <<>>
  /\ state.iconPositions = <<>>

\* C14 as stated: load is all-or-nothing on a bad record.  When the stored
\* record fails to parse or is structurally invalid, the load deletes the
\* entry and the store keeps its defaults for theme, windows and
\* iconPositions.
C14_LoadAllOrNothing ==
  (last.op = "new" /\ InvalidRecord(last.args.saved)) => (storage = <<>> /\ Defaults)

\* C14 as amended: when the stored text fails to parse, the load deletes the
\* entry and the store keeps its defaults; when it parses to something that
\* is not an object, the store keeps its defaults and the entry stays.
C14_LoadUnusableRecord ==
  last.op = "new" =>
    /\ last.args.saved = <<Unparseable>> => (storage = <<>> /\ Defaults)
    /\ last.args.saved = <<NonObject>> => (storage = last.args.saved /\ Defaults)

\* C14 witness: a store has started on text that does not parse, and the
\* entry is gone.
C14_Witness ==
  /\ last.op = "new"
  /\ last.args.saved = <<Unparseable>>
  /\ storage = <<>>
  /\ Defaults

\* C15: load recovers field by field.  For a stored record that parses as an
\* object, each of theme, windows and iconPositions is validated on its own:
\* a valid field is applied, an invalid one leaves that field at its
\* default; and the store's window list is a list in every state.
C15_LoadFieldByField ==
  /\ isArray(state.windows)
  /\ (last.op = "new" /\ last.args.saved # <<>> /\ "json" \notin DOMAIN last.args.saved[1]) =>
       LET parsed == last.args.saved[1]
       IN  /\ state.theme = IF parsed.theme \in THEMES THEN parsed.theme ELSE "dark"
           /\ state.windows = IF isArray(parsed.windows) THEN parsed.windows ELSE <<>>
           /\ state.iconPositions =
                IF isArray(parsed.iconPositions) /\ parsed.iconPositions # BadEntries
                THEN newMap(parsed.iconPositions) ELSE <<>>

\* The commands that notify the subscribers.
NotifyCommands ==
  IdCommands \cup
  {"openWindow", "setTheme", "setIconPositions", "updateIconPosition", "updateDesktopSize"}

\* Every notification re-arms the one save timer to its full delay; the
\* clock only counts the pending timer down; the timer's write is made when
\* the full delay has passed since the last notification and leaves no timer
\* pending; and storage changes only in a step of one of the `writers`.
Debounced(writers) ==
  /\ last'.op \in NotifyCommands => saveTimeout' = TimerTicks
  /\ last'.op = "tick" =>
       (saveTimeout' = saveTimeout - 1 /\ saveTimeout' > 0 /\ storage' = storage)
  /\ last'.op = "saveTimer" =>
       /\ saveTimeout = 1 /\ saveTimeout' = 0
       /\ last'.args.ok => storage' = <<stateToSave(state)>>
  /\ storage' # storage => last'.op \in writers

\* C16 as stated: debounced saves.  Every notification re-arms one 1-second
\* timer, so a burst of notifications less than 1 second apart causes
\* exactly one debounced write, after the last of them; the only other
\* writes are the immediate ones of setTheme.
C16_DebouncedSaves == [][Debounced({"saveTimer", "setTheme"})]_vars

\* C16 as amended: the same, the only other writes being the immediate ones
\* of setTheme and of setIconPositions.
C16_DebouncedSavesIcons ==
  [][Debounced({"saveTimer", "setTheme", "setIconPositions"})]_vars

\* C16 witness: the timer has written a state with an open window and icon
\* positions, none of which setTheme wrote.
C16_Witness ==
  /\ last.op = "saveTimer" /\ last.args.ok
  /\ saveTimeout = 0
  /\ storage = <<stateToSave(state)>>
  /\ state.windows # <<>>
  /\ state.iconPositions # <<>>
  /\ state.theme = "dark"

\* C17: a failing save never raises to the caller and leaves the in-memory
\* state as the command set it: after a failed save the state and the pending
\* timer are what they are after a successful one, so the commands that
\* follow behave the same; the stored entry is the one from before.
C17_SaveFailure ==
  [][ (last'.op \in {"setTheme", "setIconPositions", "saveTimer"} /\ ~last'.args.ok) =>
        /\ last'.ret # Throws
        /\ storage' = storage
        /\ last'.op = "saveTimer" => (state' = state /\ saveTimeout' = 0)
        /\ last'.op = "setTheme" =>
             (state' = [state EXCEPT !.theme = last'.args.theme] /\ saveTimeout' = TimerTicks)
        /\ last'.op = "setIconPositions" =>
             /\ state' = [state EXCEPT !.iconPositions = last'.args.positions]
             /\ saveTimeout' = TimerTicks ]_vars

\* C17 witness: the timer's save has failed with a window open; the stored
\* entry is an older one and the store goes on.
C17_Witness ==
  /\ last.op = "saveTimer" /\ ~last.args.ok
  /\ last.ret = Null
  /\ state.windows # <<>>
  /\ storage # <<>> /\ storage # <<stateToSave(state)>>
  /\ saveTimeout = 0

\* The call of the resize example: the window of size {200,100} at {50,50},
\* the pointer moved +30 px on x, with the given handle and minimum size.
C21_Example(handle, minSize) ==
  /\ last.op = "calculateResize"
  /\ last.args.handle = handle
  /\ last.args.originalWindowData =
       [position |-> [x |-> 50, y |-> 50], size |-> [width |-> 200, height |-> 100]]
  /\ last.args.currentPos.x - last.args.startPos.x = 30
  /\ last.args.currentPos.y = last.args.startPos.y
  /\ last.args.minSize = minSize

C21_DefaultMinSize == [width |-> WINDOW_MIN_WIDTH, height |-> WINDOW_MIN_HEIGHT]

C21_SmallMinSize == [width |-> 100, height |-> 50]

\* C21 as stated: with the program's minimum size (WINDOW_MIN_WIDTH x
\* WINDOW_MIN_HEIGHT) the example returns width 230 at x 50 for handle 'e'
\* and width 170 at x 80 for handle 'w'.
C21_ResizeExample ==
  /\ C21_Example(<<"e">>, C21_DefaultMinSize) =>
       (last.ret.size.width = 230 /\ last.ret.position.x = 50)
  /\ C21_Example(<<"w">>, C21_DefaultMinSize) =>
       (last.ret.size.width = 170 /\ last.ret.position.x = 80)

\* C21 as amended: with the program's minimum size the example's window,
\* narrower than the minimum, is widened to it: width 300 at x 50 for 'e',
\* width 300 at x -50 for 'w' (east edge still 250); the example's numbers
\* are those of a call that passes a minimum width of at most 170.
C21_ResizeExampleClamped ==
  /\ C21_Example(<<"e">>, C21_DefaultMinSize) =>
       (last.ret.size.width = WINDOW_MIN_WIDTH /\ last.ret.position.x = 50)
  /\ C21_Example(<<"w">>, C21_DefaultMinSize) =>
       /\ last.ret.size.width = WINDOW_MIN_WIDTH
       /\ last.ret.position.x = -50
       /\ last.ret.position.x + last.ret.size.width = 250
  /\ C21_Example(<<"e">>, C21_SmallMinSize) =>
       (last.ret.size.width = 230 /\ last.ret.position.x = 50)
  /\ C21_Example(<<"w">>, C21_SmallMinSize) =>
       /\ last.ret.size.width = 170
       /\ last.ret.position.x = 80
       /\ last.ret.position.x + last.ret.size.width = 250

\* C21 witness: the example resized by its west handle with the program's
\* minimum size, the window pushed 100 px to the left.
C21_Witness ==
  /\ C21_Example(<<"w">>, C21_DefaultMinSize)
  /\ last.ret.position.x = -50
  /\ last.ret.size = [width |-> 300, height |-> 100]

\* C22: isOverlapping(a, b) is true exactly when NOT (a.right < b.left OR
\* a.left > b.right OR a.bottom < b.top OR a.top > b.bottom), the edges being
\* position and position + size; two rectangles that only share a touching
\* edge are overlapping; and isOverlapping(a, b) = isOverlapping(b, a).
C22_Overlap ==
  last.op = "isOverlapping" =>
    LET a == last.args.windowData1
        b == last.args.windowData2
    IN  /\ last.ret = ~( \/ a.position.x + a.size.width < b.position.x
                         \/ a.position.x > b.position.x + b.size.width
                         \/ a.position.y + a.size.height < b.position.y
                         \/ a.position.y > b.position.y + b.size.height )
        /\ ( /\ a.position.x + a.size.width = b.position.x
             /\ a.position.y = b.position.y ) => last.ret = TRUE
        /\ last.ret = isOverlapping(b, a)

\* C22 witness: the second window starts where the first one ends, and the
\* two are reported as overlapping.
C22_Witness ==
  /\ last.op = "isOverlapping"
  /\ last.args.windowData1.position = [x |-> 0, y |-> 0]
  /\ last.args.windowData2.position = [x |-> 100, y |-> 0]
  /\ last.args.windowData1.size.width = 100
  /\ last.ret = TRUE

\* C23: the default position of a window opened when n windows exist is
\* {100 + o, 100 + o} with o = (n * 30) mod 200, so 0 <= o < 200 (o = 180 for
\* n = 6, o = 10 for n = 7); getCascadePosition, the store's
\* getDefaultPosition and the position openWindow gives the window agree.
C23_CascadeWraparound ==
  last.op = "getCascadePosition" =>
    LET n == Len(last.args.windows)
        o == (n * 30) % 200
        s == [state EXCEPT !.windows = last.args.windows]
    IN  /\ last.ret = [x |-> 100 + o, y |-> 100 + o]
        /\ 0 <= o /\ o < 200
        /\ n = 6 => last.ret = [x |-> 280, y |-> 280]
        /\ n = 7 => last.ret = [x |-> 110, y |-> 110]
        /\ getDefaultPosition(s) = last.ret
        /\ openWindow(s, NoArgs, "win").state.windows[n + 1].position = last.ret

\* C23 witness: with seven windows open, the seventh of them at {280,280},
\* the next position has wrapped to {110,110}.
C23_Witness ==
  /\ last.op = "getCascadePosition"
  /\ Len(last.args.windows) = 7
  /\ last.args.windows[7].position = [x |-> 280, y |-> 280]
  /\ last.ret = [x |-> 110, y |-> 110]

\* The threshold a call of snapToEdge works with.
C24_Threshold == IF last.args.threshold = <<>> THEN 20 ELSE last.args.threshold[1]

\* C24 for one axis: c the coordinate, m = bounds - size, r the coordinate
\* returned.  Where both rules apply to c the near edge is taken.
C24_Axis(c, m, r) ==
  LET near == c >= 0 /\ c < C24_Threshold
      far  == c > m - C24_Threshold /\ c <= m
  IN  /\ near => r = 0
      /\ far /\ ~near => r = m
      /\ ~near /\ ~far => r = c

\* C24: on each axis a non-negative coordinate within threshold of the near
\* edge becomes 0, a coordinate within threshold of and not beyond
\* bounds - size becomes bounds - size, any other coordinate is unchanged;
\* the threshold is 20 unless passed.
C24_SnapToEdge ==
  last.op = "snapToEdge" =>
    /\ C24_Axis(last.args.position.x, last.args.bounds.width - last.args.size.width,
                last.ret.x)
    /\ C24_Axis(last.args.position.y, last.args.bounds.height - last.args.size.height,
                last.ret.y)

\* C29 as stated: nextZIndex starts above the highest chrome layer (app bar,
\* top bar), so no window has a zIndex equal to or below a chrome layer's.
C29_AboveChrome ==
  /\ state.nextZIndex > Max(Z_INDEX_APPBAR, Z_INDEX_TOPBAR)
  /\ \A i \in 1..Len(Windows) : Windows[i].zIndex > Max(Z_INDEX_APPBAR, Z_INDEX_TOPBAR)

\* C29 as amended: nextZIndex starts at WINDOW_BASE, which lies above the
\* desktop layer and below the app bar and top bar layers; the counter never
\* goes below WINDOW_BASE and every window's zIndex is at least WINDOW_BASE.
C29_WindowLayer ==
  /\ Z_INDEX_DESKTOP < WINDOW_BASE
  /\ WINDOW_BASE < Z_INDEX_APPBAR /\ WINDOW_BASE < Z_INDEX_TOPBAR
  /\ last.op = "new" => state.nextZIndex = WINDOW_BASE
  /\ state.nextZIndex >= WINDOW_BASE
  /\ \A i \in 1..Len(Windows) : Windows[i].zIndex >= WINDOW_BASE

\* C29 witness: a window has been raised over another one; both are in the
\* window layer, below the app bar.
C29_Witness ==
  /\ last.op = "focusWindow"
  /\ Len(Windows) = 2
  /\ \E i, j \in 1..2 :
       /\ Windows[i].id = last.id
       /\ Windows[i].zIndex > Windows[j].zIndex
       /\ Windows[j].zIndex >= WINDOW_BASE
       /\ Windows[i].zIndex < Z_INDEX_APPBAR

\* C30: in every reachable state the store's theme is one of dark, light,
\* macos, glass, custom, whatever setTheme was called with and whatever
\* record was loaded.
C30_ThemeEnum == state.theme \in THEMES

\* The steps of the gestures, and the commands that change a geometry.
BeginOps == {"dragstart", "resizestart"}

MoveOps == {"mousemove", "touchmove"}

EndOps == {"mouseup", "touchend", "disconnectedCallback"}

IsGeometry(command) == command.op \in {"updateWindowPosition", "updateWindowSize"}

\* The commands the step being taken has issued.
Issued == IF last'.op \in BeginOps \cup MoveOps \cup EndOps THEN last'.ret ELSE <<>>

\* C25, one step.  A gesture that begins on a window that is not focused
\* issues the focus request for it first and no geometry command in that
\* step, and leaves it focused; a session becomes active only in its begin
\* step; geometry commands are issued only by pointer-move steps of a
\* session that is active, that is, after its begin step.
C25_Step ==
  /\ (last'.op \in BeginOps /\ ~windowData(state, osWindow).isFocused) =>
       /\ Issued # <<>>
       /\ Issued[1] = [op |-> "focusWindow", id |-> osWindow.windowId, args |-> NoArgs]
       /\ \A i \in 1..Len(Issued) : ~IsGeometry(Issued[i])
       /\ windowData(state', osWindow').isFocused
       /\ state'.focusedWindowId = osWindow.windowId
  /\ (osWindow'._isDragging /\ ~osWindow._isDragging) => last'.op = "dragstart"
  /\ (osWindow'._isResizing /\ ~osWindow._isResizing) => last'.op = "resizestart"
  /\ (\E i \in 1..Len(Issued) : IsGeometry(Issued[i])) =>
       /\ last'.op \in MoveOps
       /\ osWindow._isDragging \/ osWindow._isResizing

\* C25: in every drag or resize gesture on a window that is not focused when
\* the gesture begins, the focus request is issued at gesture begin, before
\* the first updateWindowPosition or updateWindowSize of the gesture.
C25_FocusBeforeGeometry == [][C25_Step]_vars

\* C25 witness: the first window, unfocused since the second was opened, has
\* been raised by the begin of a drag and then moved by a sample.
C25_Witness ==
  /\ last.op \in MoveOps
  /\ osWindow._isDragging /\ ~osWindow._isResizing /\ osWindow.begun = 1
  /\ Len(Windows) = 2
  /\ osWindow.windowId = Windows[1].id
  /\ Windows[1].isFocused /\ Windows[1].zIndex > Windows[2].zIndex
  /\ last.ret = << [ op |-> "updateWindowPosition", id |-> Windows[1].id,
                     args |-> [NoArgs EXCEPT !.position = <<Windows[1].position>>] ] >>

\* C26, one step.  Pointer-up and teardown end the sessions they end and
\* remove their listeners; they leave the store as it is (no rollback); a
\* pointer-move sample while no session is active issues no command and
\* changes nothing in the store.
C26_Step ==
  /\ last'.op \in {"mouseup", "disconnectedCallback"} =>
       /\ ~osWindow'._isDragging /\ ~osWindow'._isResizing
       /\ osWindow'.listeners = <<>>
  /\ last'.op = "touchend" =>
       /\ ~osWindow'._isDragging
       /\ \A i \in 1..Len(osWindow'.listeners) : osWindow'.listeners[i] # "drag"
  /\ last'.op \in EndOps => (state' = state /\ Issued = <<>>)
  /\ (last'.op \in MoveOps /\ ~osWindow._isDragging /\ ~osWindow._isResizing) =>
       (state' = state /\ Issued = <<>>)

\* C26: after a session has ended or its element has been torn down the
\* session is idle and no later pointer-move sample issues a command; the
\* window keeps the last geometry committed.  As a state: an element that is
\* not connected has no active session and no listener, and a session is
\* active exactly while its listeners are registered.
C26_Idle ==
  /\ ~osWindow.isConnected =>
       (~osWindow._isDragging /\ ~osWindow._isResizing /\ osWindow.listeners = <<>>)
  /\ osWindow._isDragging <=>
       \E i \in 1..Len(osWindow.listeners) : osWindow.listeners[i] = "drag"
  /\ osWindow._isResizing <=>
       \E i \in 1..Len(osWindow.listeners) : osWindow.listeners[i] = "resize"

C26_EndAndCancel == []C26_Idle /\ [][C26_Step]_vars

\* C26 witness: the element of a window that a gesture had moved away from
\* its default position has been torn down, and the pointer has moved again:
\* nothing was issued and the window is where the gesture left it.
C26_Witness ==
  /\ last.op \in MoveOps /\ last.ret = <<>>
  /\ ~osWindow.isConnected /\ osWindow.begun > 0
  /\ Len(Windows) >= 1
  /\ osWindow.windowId = Windows[1].id
  /\ Windows[1].position # C9_Cascade(0)
  /\ Windows[1].position.x # NaN

\* The commands the pointer-move event being handled issues when the
\* element's window has the given position and size in the store, everything
\* else being as it is.
C27_Commits(position, size) ==
  LET id == osWindow.windowId
      s  == updateWindowSize(updateWindowPosition(state, id, position), id, size)
  IN  dispatch(Context(s, osWindow), windowData(s, osWindow), last'.op,
               event(last'.op, last'.args.e), osWindow.listeners).commands

C27_Elsewhere == [x |-> 7, y |-> 11]

C27_OtherSize == [width |-> 333, height |-> 222]

\* C27, one step.  What a pointer-move sample commits does not depend on
\* where the earlier samples have left the window: it is what the sample
\* would commit with the window at any other position and, when no drag is
\* active, of any other size (a drag reads the window's size, which no drag
\* sample changes).  A drag sample with the drag's own capture commits the
\* position captured at begin plus the pointer's distance from its start,
\* clamped to and snapped in the available bounds of the current viewport
\* (for a pointer that is not at coordinate 0).
C27_Step ==
  (last'.op \in MoveOps /\ osWindow.isConnected) =>
    LET wd == windowData(state, osWindow)
        ds == osWindow._dragStart[1]
        e  == last'.args.e
        availableBounds == [width |-> state.desktopSize.width,
                            height |-> state.desktopSize.height - 80]
    IN  /\ Issued = C27_Commits(C27_Elsewhere, wd.size)
        /\ ~osWindow._isDragging => Issued = C27_Commits(C27_Elsewhere, C27_OtherSize)
        /\ ( /\ osWindow._isDragging /\ ~osWindow._isResizing
             /\ "windowX" \in DOMAIN ds /\ ds.windowX # NaN /\ ds.windowY # NaN
             /\ e.clientX # 0 /\ e.clientY # 0 ) =>
             Issued =
               << [ op |-> "updateWindowPosition", id |-> wd.id,
                    args |-> [NoArgs EXCEPT !.position =
                      << snapToEdge(
                           constrainPosition([ x |-> ds.windowX + (e.clientX - ds.x),
                                               y |-> ds.windowY + (e.clientY - ds.y) ],
                                             wd.size, availableBounds),
                           wd.size, availableBounds, <<>>) >> ] ] >>

\* C27: the geometry committed for a pointer-move sample depends only on the
\* values captured at begin, on that sample and on the current viewport,
\* never on earlier samples of the gesture.
C27_LastWriteWins == [][C27_Step]_vars

\* C27 witness: a drag that began with the window at {100,100} has committed
\* {130,100} for the sample 30 px to the right of the pointer's start.
C27_Witness ==
  /\ last.op \in MoveOps
  /\ last.args.e = [clientX |-> 430, clientY |-> 300]
  /\ osWindow._isDragging /\ ~osWindow._isResizing
  /\ osWindow._dragStart = <<[x |-> 400, y |-> 300, windowX |-> 100, windowY |-> 100]>>
  /\ windowData(state, osWindow).position = [x |-> 130, y |-> 100]

\* C28, one step.  Beginning a resize leaves an active drag and its capture
\* as they are; beginning a drag, or ending one alone, leaves an active
\* resize and its capture (handle, pointer start, original position and
\* size) as they are; a sample changes no captured state; no sample of an
\* active session fails, and a drag sample finds the capture of the drag's
\* own begin, the window's position included.
C28_Step ==
  /\ (last'.op = "resizestart" /\ osWindow._isDragging) =>
       (osWindow'._isDragging /\ osWindow'._dragStart = osWindow._dragStart)
  /\ (last'.op \in {"dragstart", "touchend"} /\ osWindow._isResizing) =>
       /\ osWindow'._isResizing
       /\ osWindow'._resizeHandle = osWindow._resizeHandle
       /\ osWindow'._originalWindow = osWindow._originalWindow
       /\ osWindow'._dragStart = osWindow._dragStart
  /\ last'.op \in MoveOps => osWindow' = osWindow
  /\ \A i \in 1..Len(Issued) : Issued[i].op # Throws
  /\ (last'.op \in MoveOps /\ osWindow._isDragging) =>
       /\ osWindow._dragStart # <<>>
       /\ "windowX" \in DOMAIN osWindow._dragStart[1]

\* C28: the drag session and the resize session of a window are independent:
\* beginning, sampling or ending one never changes the captured state of the
\* other, so each active session keeps computing from its own begin capture.
C28_IndependentSessions == [][C28_Step]_vars

\* The record a startup found in storage, and whether it found one.
LoadedRecord == last.args.saved[1]

StartedFromRecord == last.op = "new" /\ last.args.saved # <<>>

LaunchOps == {"openWindow", "focusWindow", "restoreWindow"}

\* The icons a mouseup finds pressed and not dragged: the clicks it ends.
Clicked ==
  { appId \in AppIds :
      /\ \E i \in 1..Len(desktopIcons.listeners) : desktopIcons.listeners[i] = appId
      /\ desktopIcons.icons[appId]._dragStart # <<>>
      /\ ~desktopIcons.icons[appId]._hasDragged }

\* C32: desktop icon clicks.  A single click on a desktop icon (mouse down
\* and up without dragging) selects the icon and does not launch its
\* application; only a double click, or Enter or Space on the icon, launches
\* it.  The mouseup after the first press on the page ends a single click.
C32_Step ==
  (last'.op = "mouseup" /\ desktopIcons.pressed = 1) =>
    \A appId \in Clicked :
      /\ appId \in desktopIcons'._selectedIcons
      /\ state'.windows = state.windows
      /\ \A i \in 1..Len(last'.ret) : last'.ret[i].op \notin LaunchOps

C32_SingleClickSelects == [][C32_Step]_vars

\* C33: focusedWindowId agrees with the flags.  In every reachable state
\* focusedWindowId is either null or the id of a live window, and a window
\* has isFocused = true if and only if its id equals focusedWindowId.
C33_FocusReference ==
  /\ state.focusedWindowId = Null \/ state.focusedWindowId \in LiveIds
  /\ \A i \in Idx(Windows) : Windows[i].isFocused <=> Windows[i].id = state.focusedWindowId

\* What C34 says of one step: the window a command has raised is above every
\* other live window.
C34_Step ==
  LET ws == state'.windows
  IN  /\ last'.op = "openWindow" =>
           \A j \in 1..(Len(ws) - 1) : ws[Len(ws)].zIndex > ws[j].zIndex
      /\ (last'.op \in {"focusWindow", "restoreWindow"} /\ last'.id \in LiveIds) =>
           \A i, j \in Idx(ws) :
             (ws[i].id = last'.id /\ j # i) => ws[i].zIndex > ws[j].zIndex

\* C34: a raised window is topmost.  Immediately after openWindow, or after
\* focusWindow or restoreWindow of a live window, that window's zIndex is
\* strictly greater than the zIndex of every other live window, in every
\* state reachable from startup, a startup that restored saved windows
\* included; and nextZIndex is always strictly greater than every live
\* window's zIndex.
C34_RaisedIsTopmost ==
  /\ [](\A i \in Idx(Windows) : Windows[i].zIndex < state.nextZIndex)
  /\ [][C34_Step]_vars

\* The geometry of the element's window after the step.
Committed == windowData(state', osWindow)

\* A pointer sample reaches a resize session and no drag session.
ResizeSample ==
  /\ last'.op = "mousemove"
  /\ osWindow._isResizing
  /\ ~osWindow._isDragging
  /\ osWindow._dragStart # <<>>

\* What C35 says of one step.
C35_Step ==
  ResizeSample =>
    LET original == osWindow._originalWindow[1]
        handle   == osWindow._resizeHandle[1]
    IN  /\ includes(handle, "w") =>
             Committed.position.x + Committed.size.width
               = original.position.x + original.size.width
        /\ includes(handle, "e") => Committed.position.x = original.position.x
        /\ includes(handle, "n") =>
             Committed.position.y + Committed.size.height
               = original.position.y + original.size.height
        /\ includes(handle, "s") => Committed.position.y = original.position.y

\* C35: anchoring survives the session's clamping.  In a resize session,
\* after the size has been clamped with constrainSize and the position with
\* constrainPosition, every geometry committed for a handle containing 'w'
\* still has position.x + size.width equal to the east edge captured at
\* begin, and every geometry committed for a handle containing 'e' still has
\* position.x equal to the x captured at begin (likewise 'n' keeps the south
\* edge and 's' keeps y), for every pointer sample, samples outside the
\* desktop included.
C35_AnchoringSurvivesClamping == [][C35_Step]_vars

\* The snapshots the subscribers are notified of while the commands of one
\* step are issued on a store in state s, one after each command.
RECURSIVE Notified(_, _)
Notified(s, commands) ==
  IF commands = <<>> THEN <<>>
  ELSE
    LET c  == Head(commands)
        s1 == CASE c.op = "updateWindowPosition" ->
                     updateWindowPosition(s, c.id, c.args.position[1])
                [] c.op = "updateWindowSize" -> updateWindowSize(s, c.id, c.args.size[1])
                [] c.op = "focusWindow" -> focusWindow(s, c.id)
                [] OTHER -> s
    IN  (IF c.op = Throws THEN <<>> ELSE <<s1>>) \o Notified(s1, Tail(commands))

\* What C36 says of one step: each snapshot notified shows the window with
\* the position and size of this sample, or as it was before the sample.
C36_Step ==
  ResizeSample =>
    LET before == windowData(state, osWindow)
        seen   == Notified(state, last'.ret)
    IN  \A k \in 1..Len(seen) :
          LET w == windowData(seen[k], osWindow)
          IN  \/ w.position = Committed.position /\ w.size = Committed.size
              \/ w.position = before.position /\ w.size = before.size

\* C36: a resize sample is committed as one step.  For every pointer-move
\* sample of a resize session, no subscriber is ever notified of a snapshot
\* in which the window already has the sample's new position but still has
\* its previous size, or the reverse; every snapshot a subscriber sees during
\* a resize pairs a position with the size computed from the same sample.
C36_ResizeCommittedAtOnce == [][C36_Step]_vars

\* What C37 says of one step that commits a geometry: the window's position
\* is within the clamped range of the available bounds of the current
\* viewport, and after a resize sample its size is between the minimum and
\* the bounds and its box is inside the bounds.
C37_Step ==
  (last'.op \in MoveOps /\ \E i \in 1..Len(Issued) : IsGeometry(Issued[i])) =>
    LET w      == Committed
        bounds == [ width  |-> state.desktopSize.width,
                    height |-> state.desktopSize.height - 80 ]
    IN  /\ 0 <= w.position.x
        /\ w.position.x <= Max(bounds.width - w.size.width, 0)
        /\ 0 <= w.position.y
        /\ w.position.y <= Max(bounds.height - w.size.height, 0)
        /\ ( /\ osWindow._isResizing
             /\ last'.op = "mousemove"
             /\ bounds.width >= WINDOW_MIN_WIDTH /\ bounds.height >= WINDOW_MIN_HEIGHT ) =>
             /\ WINDOW_MIN_WIDTH <= w.size.width /\ w.size.width <= bounds.width
             /\ WINDOW_MIN_HEIGHT <= w.size.height /\ w.size.height <= bounds.height
             /\ w.position.x + w.size.width <= bounds.width
             /\ w.position.y + w.size.height <= bounds.height

\* C37: gestures keep the window on the desktop.  With the available bounds
\* being {viewport.width, viewport.height - 80}, every position committed by
\* a drag sample satisfies 0 <= x <= max(bounds.width - size.width, 0) and
\* 0 <= y <= max(bounds.height - size.height, 0), edge snapping included,
\* and, the available bounds being at least the 300 x 200 minimum size,
\* every geometry committed once a resize sample is fully applied has a size
\* between the minimum and the bounds and a bounding box entirely inside the
\* bounds.
C37_OnDesktop == [][C37_Step]_vars

\* The live windows of a component kind.
OfComponent(ws, component) == {i \in Idx(ws) : ws[i].component = component}

\* The applications the step being taken launches: the one whose icon gets
\* Enter or Space, or those whose click a mouseup ends.
Launched ==
  IF last'.op = "keydown" /\ last'.args.key \in {"Enter", " "} THEN {last'.id}
  ELSE IF last'.op = "mouseup" THEN Clicked
  ELSE {}

\* What C38 says of one step that launches applications from their icons.
C38_Step ==
  LET opening == {a \in Launched : OfComponent(state.windows, getAppById(a).component) = {}}
      opened  == {i \in 1..Len(last'.ret) : last'.ret[i].op = "openWindow"}
  IN  Launched # {} =>
        /\ Len(state'.windows) = Len(state.windows) + Cardinality(opening)
        /\ Cardinality(opened) = Cardinality(opening)
        /\ \A a \in Launched :
             Cardinality(OfComponent(state'.windows, getAppById(a).component)) = 1
        /\ Cardinality(Launched) = 1 =>
             \A a \in Launched :
               \A i \in OfComponent(state'.windows, getAppById(a).component) :
                 /\ state'.windows[i].isFocused
                 /\ ~state'.windows[i].isMinimized
                 /\ state'.focusedWindowId = state'.windows[i].id

\* C38: launching from a desktop icon never duplicates an application.  When
\* a window of the icon's component kind is already open, the launch focuses
\* it (restoring it if minimized) and opens nothing; otherwise it opens
\* exactly one window.  So, in any sequence of icon launches, closes,
\* minimizes and focuses, at most one live window exists per component kind.
C38_LaunchNeverDuplicates ==
  /\ [](\A k \in 1..Len(Apps) : Cardinality(OfComponent(Windows, Apps[k].component)) <= 1)
  /\ [][C38_Step]_vars

\* C38 witness: with the windows of both applications open and the first
\* minimized, Enter on the first icon has restored its window and opened
\* nothing.
C38_Witness ==
  /\ last.op = "keydown" /\ last.id = Apps[1].id
  /\ Len(Windows) = 2
  /\ last.ret = <<[op |-> "restoreWindow", id |-> Windows[1].id, args |-> NoArgs]>>
  /\ Windows[1].component = Apps[1].component
  /\ Windows[1].isFocused /\ ~Windows[1].isMinimized
  /\ Windows[2].component = Apps[2].component

\* The stored record is the projection {theme, windows, iconPositions} of
\* the state in memory.
Persisted == storage = <<stateToSave(state)>>

\* A store command has been called.
Commanded == last.op \notin {"new", "tick", "saveTimer"}

\* A step with no notification: time passes or the timer's callback runs.
Quiet == last'.op \in {"tick", "saveTimer"}

\* C39: changes are eventually persisted.  After any store command that
\* changes theme, windows or icon positions, if no further notification
\* occurs and storage accepts writes, the stored record eventually, when the
\* 1-second timer fires, equals the projection {theme, windows,
\* iconPositions} of the current in-memory state: every command leaves a
\* timer pending or the record written, the timer's callback writes the
\* projection of the state it finds, and once the notifications have stopped
\* the record equals the projection from some time on.
C39_EventuallyPersisted ==
  /\ [][ /\ (last'.op \notin {"tick", "saveTimer"}) => (saveTimeout' > 0 \/ Persisted')
         /\ last'.op = "saveTimer" => (Persisted' /\ state' = state) ]_vars
  /\ (<>Commanded /\ <>[][Quiet]_vars) => <>[]Persisted

\* C39 witness: the timer has fired and written a record with a window, a
\* moved icon and a changed theme, replacing the record setTheme had written
\* before the window was opened.
C39_Witness ==
  /\ last.op = "saveTimer"
  /\ Persisted
  /\ Len(Windows) = 1
  /\ state.iconPositions # <<>>
  /\ state.theme = "light"

====
